---- MODULE Spec2Model ----
(***************************************************************************)
(* Verification model of thunk (Yates-Labs/thunk): the clustering engine   *)
(* (internal/cluster/grouping.go), the episode indexer and retriever       *)
(* (internal/rag) and prompt assembly (internal/narrative).                *)
(*                                                                         *)
(* Numbers.  Go computes the similarity in float64.  The model keeps every *)
(* score as an exact fraction <<num, den>>; den = 0 stands for NaN (the    *)
(* only way the code produces one is 0/0 in calculateTimeScore).  Weights  *)
(* and MinSimilarityScore are held in hundredths.  Durations and instants  *)
(* are integers in hours.                                                  *)
(***************************************************************************)
EXTENDS Integers, Sequences, FiniteSets, TLC

VARIABLES
    \* GroupIntoEpisodes
    pc,              \* position of the modelled GroupIntoEpisodes call
    raCommits,       \* RepositoryActivity.Commits (input order)
    raArtifacts,     \* RepositoryActivity.Artifacts
    config,          \* GroupingConfig
    commits,         \* the sorted copy made by GroupIntoEpisodes
    idx,             \* loop index i of GroupIntoEpisodes (0-based, next to process)
    currentEpisode,  \* <<>> for nil, <<episode>> otherwise
    episodes,        \* the result slice
    firstRun,        \* <<>>, or <<the result of an earlier call on the same input>>
    \* IndexEpisodes and the vector store
    ixPc,            \* position of the modelled IndexEpisodes call
    ixEpisodes,      \* argument episodes ([]EpisodeSummary)
    ixOpts,          \* argument opts (IndexOptions)
    episodesToIndex, \* the residual list
    batchStart,      \* loop variable of the batch loop
    embeddingRecords,\* result of the last Embed call
    ixResult,        \* "pending", "nil", the error returned, or "panic"
    store,           \* the records of the vector store, in insertion order
    unflushed,       \* number of records inserted since the last Flush
    ixCalls,         \* number of IndexEpisodes calls made so far
    insertCount,     \* history: how often each identity was inserted
    ixHistory,       \* history: what has happened in the calls so far
    ixLog,           \* history: the collaborator calls of the current IndexEpisodes call
    \* Retriever.RetrieveContextForEpisode
    rtPc,            \* "idle" or "returned"
    rtArgs,          \* the arguments episodeID, topK, opts of the call
    rtLog,           \* the collaborator calls the retriever made, in order
    rtSearched,      \* the chunks the similarity search returned
    rtResult,        \* the returned [err, chunks]
    \* narrative.AssemblePrompt
    prPc,            \* number of AssemblePrompt calls made (0, 1, 2)
    prEpisode,       \* targetEpisode: <<>> for nil, <<episode>> otherwise
    prContextA,      \* contextChunks of the first call
    prContextB,      \* contextChunks of the second call: the same chunks, reordered
    promptA,         \* result of the first call
    promptB,         \* result of the second call
    \* adapter.determineReviewState
    rvPc,            \* "call" or "done"
    rvReviews,       \* argument reviews ([]githubmodel.Review)
    rvResult,        \* the returned review state
    \* RAGPipeline.GenerateProjectNarrativeRAG
    hyPc,            \* "call", "done" (project narrative) or "episode done"
    hyQuery,         \* argument query
    hyEpisodes,      \* argument episodes ([]cluster.Episode)
    hyConfig,        \* p.config: TopK and MaxContextSize
    hyRetrieved,     \* what RetrieveContextForQuery returned
    hyAugmented,     \* contextChunks before the truncation to MaxContextSize
    hyContext,       \* contextChunks handed to prompt assembly
    hyResult,        \* "pending", "nil", the error returned, or "panic"
    \* orchestrator.AnalyzeRepositoryWithConfig
    anPc,            \* position of the modelled call
    anRepo,          \* what detectPlatform makes of the argument repo
    anToken,         \* apiToken
    anCancelled,     \* ctx.Err() # nil
    anActivity,      \* <<>> or <<the RepositoryActivity being built>>
    anClustered,     \* history: GroupIntoEpisodes has been called
    anCancelledInTime, \* history: ctx was cancelled when ingestion ended or was skipped
    anResult,        \* "pending" or the returned [episodes, err]
    \* orchestrator.NewRAGPipeline and its callers
    plPc,            \* position of the caller of NewRAGPipeline
    plCaller,        \* "runAsk", or a caller of the package that builds a pipeline
                     \* ("test") or builds one and indexes ("indexTest")
    plConfig,        \* the RAGConfig fields the constructors look at
    plEnvKey,        \* the environment variable OPENAI_API_KEY
    plStoreOpen,     \* the Milvus client connection is open
    plEverOpened,    \* history: the connection has been opened
    plDeferred,      \* the caller has deferred pipeline.Close()
    plResult,        \* "pending", "pipeline", "nil" or the error last returned
    \* adapter.convertGitHubIssue and convertGitHubPullRequest
    cvPc,            \* "call" or "done"
    cvRecord,        \* the issue or pull request handed to the adapter
    cvDiscussions,   \* artifact.Discussions of the artifact returned
    \* MilvusStore.Insert
    msPc,            \* "idle" or "returned"
    msArgs,          \* the arguments records and metadata of the call
    msCollection,    \* the rows of the Milvus collection, in insertion order
    msBefore,        \* history: the collection when the call was made
    msResult         \* "pending", "nil" or the error returned

groupVars == <<pc, raCommits, raArtifacts, config, commits, idx, currentEpisode, episodes,
               firstRun>>

indexVars == <<ixPc, ixEpisodes, ixOpts, episodesToIndex, batchStart, embeddingRecords,
               ixResult, store, unflushed, ixCalls, insertCount, ixHistory, ixLog>>

retrVars == <<rtPc, rtArgs, rtLog, rtSearched, rtResult>>

promptVars == <<prPc, prEpisode, prContextA, prContextB, promptA, promptB>>

reviewVars == <<rvPc, rvReviews, rvResult>>

hybridVars == <<hyPc, hyQuery, hyEpisodes, hyConfig, hyRetrieved, hyAugmented, hyContext,
                hyResult>>

analyzeVars == <<anPc, anRepo, anToken, anCancelled, anActivity, anClustered,
                 anCancelledInTime, anResult>>

pipelineVars == <<plPc, plCaller, plConfig, plEnvKey, plStoreOpen, plEverOpened,
                  plDeferred, plResult>>

convertVars == <<cvPc, cvRecord, cvDiscussions>>

milvusVars == <<msPc, msArgs, msCollection, msBefore, msResult>>

vars == <<groupVars, indexVars, retrVars, promptVars, reviewVars, hybridVars,
          analyzeVars,
          pipelineVars,
          convertVars,
          milvusVars>>

---------------------------------------------------------------------------
(* Generic helpers *)

Range(s) == {s[i] : i \in 1..Len(s)}

Abs(x) == IF x < 0 THEN -x ELSE x

MaxOf(S) == CHOOSE x \in S : \A y \in S : y <= x

\* All sequences that enumerate the finite set S exactly once.
RECURSIVE Orderings(_)
Orderings(S) ==
    IF S = {} THEN {<<>>}
    ELSE UNION { {<<x>> \o s : s \in Orderings(S \ {x})} : x \in S }

---------------------------------------------------------------------------
(* Bounds of the model *)

MaxCommits == 3

---------------------------------------------------------------------------
(* Domain model: commits, artifacts, configuration *)

\* A piece of text "pre" immediately followed by the decimal number "num".
Ref(pre, num) == [pre |-> pre, num |-> num]

\* DefaultGroupingConfig, with the day scaled to MaxTimeGap = 2.
DefaultGroupingConfig ==
    [MaxTimeGap |-> 2, MinCommits |-> 1,
     TimeWeight |-> 30, AuthorWeight |-> 25, FileWeight |-> 25,
     MessageWeight |-> 10, ArtifactWeight |-> 10,
     MinSimilarityScore |-> 50]

\* Author is the only factor (TestGroupIntoEpisodes_DifferentAuthors).
AuthorOnlyConfig ==
    [DefaultGroupingConfig EXCEPT !.TimeWeight = 0, !.AuthorWeight = 100, !.FileWeight = 0,
                                  !.MessageWeight = 0, !.ArtifactWeight = 0]

\* Time is the only factor.
TimeOnlyConfig ==
    [DefaultGroupingConfig EXCEPT !.TimeWeight = 100, !.AuthorWeight = 0, !.FileWeight = 0,
                                  !.MessageWeight = 0, !.ArtifactWeight = 0]

\* The configurations GroupIntoEpisodes is called with, in two sets: those
\* where the threshold and MinCommits decide ...
ScoreConfigs ==
    { DefaultGroupingConfig,
      \* TestGroupIntoEpisodes_MinCommits
      [AuthorOnlyConfig EXCEPT !.MinCommits = 2],
      TimeOnlyConfig }

\* ... and those where the time gap decides.
GapConfigs ==
    { TimeOnlyConfig,
      \* MinSimilarityScore left at its zero value
      [TimeOnlyConfig EXCEPT !.MinSimilarityScore = 0],
      \* MaxTimeGap left at its zero value
      [DefaultGroupingConfig EXCEPT !.MaxTimeGap = 0] }

GroupingConfigs == ScoreConfigs \cup GapConfigs \cup {AuthorOnlyConfig}

\* Commit instants.
Times == {0, 1, 3}

\* What a commit carries besides its hash and instant: author e-mail, diffs,
\* the words of the subject line, and the reference-like pieces of the message.
CommitBodies ==
    { [Email |-> "alice", Diffs |-> <<[FilePath |-> "main.go", OldPath |-> ""]>>,
       Subject |-> <<"Fix", "the", "bug">>, Message |-> <<Ref("#", 1)>>],
      [Email |-> "alice", Diffs |-> <<[FilePath |-> "util.go", OldPath |-> "main.go"]>>,
       Subject |-> <<"fix", "it">>, Message |-> <<Ref("#", 1), Ref("PR-", 1)>>],
      [Email |-> "bob", Diffs |-> <<>>,
       Subject |-> <<>>, Message |-> <<Ref("GH-", 2)>>],
      [Email |-> "bob", Diffs |-> <<[FilePath |-> "util.go", OldPath |-> ""]>>,
       Subject |-> <<"Add", "api">>, Message |-> <<Ref("issue-", 2)>>] }

\* The hash of the commit at input position i.
HashOf(i) == <<"h", i>>

MkCommit(i, t, b) ==
    [Hash |-> HashOf(i), CommittedAt |-> t, Email |-> b.Email, Diffs |-> b.Diffs,
     Subject |-> b.Subject, Message |-> b.Message]

\* The artifact lists of the activity; artifact identities are unique in a list.
ArtifactLists ==
    { <<>>,
      << [ID |-> Ref("issue-", 1001), Number |-> 1,
          Discussions |-> <<[CommitHash |-> HashOf(2)]>>],
         [ID |-> Ref("pr-", 1002), Number |-> 2,
          Discussions |-> <<[CommitHash |-> HashOf(1)], [CommitHash |-> HashOf(1)]>>] >> }

---------------------------------------------------------------------------
(* internal/cluster/grouping.go: pure helpers *)

\* strings.ToLower on the strings that occur in the model.
ToLower(w) ==
    CASE w = "Fix" -> "fix"
      [] w = "Add" -> "add"
      [] w = "PR-" -> "pr-"
      [] w = "PR" -> "pr"
      [] w = "MR-" -> "mr-"
      [] w = "Issue-" -> "issue-"
      [] w = "GH-" -> "gh-"
      [] OTHER -> w

\* len(word) for the words that occur in the model.
WordLen(w) ==
    CASE w = "a" -> 1
      [] w \in {"it", "to"} -> 2
      [] OTHER -> 3

stopWords ==
    {"a", "an", "and", "are", "as", "at", "be", "by", "for", "from", "in", "is",
     "it", "of", "on", "or", "that", "the", "to", "was", "will", "with"}

\* extractKeywords: the set of lower-cased words longer than 2 that are not stop words.
extractKeywords(message) ==
    {w \in {ToLower(x) : x \in Range(message)} : WordLen(w) > 2 /\ w \notin stopWords}

\* The four patterns of extractArtifactReferences: #(\d+) and, ignoring case,
\* PR-?(\d+), issue-?(\d+), MR-?(\d+).  A piece of text matches when the part
\* before its number is one of these prefixes.
MatchesPattern(r) ==
    \/ r.pre = "#"
    \/ ToLower(r.pre) \in {"pr-", "pr", "issue-", "issue", "mr-", "mr"}

\* extractArtifactReferences: the set of matched texts (match[0]).
extractArtifactReferences(text) == {r \in Range(text) : MatchesPattern(r)}

\* The keys buildArtifactReferenceMap stores for one artifact.
RefKeys(artifact) ==
    { Ref("#", artifact.Number), artifact.ID, Ref("PR-", artifact.Number),
      Ref("issue-", artifact.Number), Ref("MR-", artifact.Number) }

\* buildArtifactReferenceMap: key -> index of the artifact the key points to.
\* The artifacts are visited in order, so the last artifact that stores a key wins.
buildArtifactReferenceMap(artifacts) ==
    [k \in UNION {RefKeys(artifacts[i]) : i \in 1..Len(artifacts)} |->
        MaxOf({i \in 1..Len(artifacts) : k \in RefKeys(artifacts[i])})]

\* Mutant: the copy is left in input order.
sortCommitsByTimeSkipped(cs) == {cs}

\* sortCommitsByTime uses sort.Slice with less = CommittedAt.Before; sort.Slice
\* is not guaranteed to be stable, so the outcomes are all orderings of the
\* input that are non-decreasing by CommittedAt.
IsSortedByTime(s) == \A i \in 1..Len(s) - 1 : s[i].CommittedAt <= s[i + 1].CommittedAt

sortCommitsByTime(cs) ==
    {s \in Orderings(Range(cs)) : IsSortedByTime(s)}

\* Mutant: the cut-off branch returns 1.0 instead of 0.
calculateTimeScoreCutoffOne(lastCommit, commit, maxGap) ==
    LET timeDiff == Abs(commit.CommittedAt - lastCommit.CommittedAt)
    IN  IF timeDiff > maxGap THEN <<1, 1>> ELSE <<maxGap - timeDiff, maxGap>>

\* calculateTimeScore: 0 beyond maxGap, else 1 - timeDiff/maxGap (0/0 when
\* timeDiff = maxGap = 0).
calculateTimeScore(lastCommit, commit, maxGap) ==
    LET timeDiff == Abs(commit.CommittedAt - lastCommit.CommittedAt)
    IN  IF timeDiff > maxGap THEN <<0, 1>> ELSE <<maxGap - timeDiff, maxGap>>

\* calculateAuthorScore
calculateAuthorScore(episode, commit) ==
    IF \E i \in 1..Len(episode.Commits) : episode.Commits[i].Email = commit.Email
    THEN <<1, 1>> ELSE <<0, 1>>

\* The paths of a diff list: FilePath, and OldPath when it is not empty.
PathsOf(diffs) ==
    {diffs[i].FilePath : i \in 1..Len(diffs)}
        \cup {diffs[i].OldPath : i \in {j \in 1..Len(diffs) : diffs[j].OldPath # ""}}

\* calculateFileScore: Jaccard similarity of the two path sets.
calculateFileScore(episode, commit) ==
    LET episodeFiles == UNION {PathsOf(episode.Commits[i].Diffs) : i \in 1..Len(episode.Commits)}
        commitFiles == PathsOf(commit.Diffs)
        intersection == Cardinality(commitFiles \cap episodeFiles)
        union == Cardinality(episodeFiles) + Cardinality(commitFiles \ episodeFiles)
    IN  IF episodeFiles = {} \/ commitFiles = {} THEN <<0, 1>>
        ELSE IF union = 0 THEN <<0, 1>>
        ELSE <<intersection, union>>

\* calculateMessageScore: the largest fraction of the commit's keywords found
\* in the keywords of one episode commit.
calculateMessageScore(episode, commit) ==
    LET commitKeywords == extractKeywords(commit.Subject)
        overlaps == {Cardinality(commitKeywords \cap extractKeywords(episode.Commits[i].Subject)) :
                        i \in {j \in 1..Len(episode.Commits) :
                                  extractKeywords(episode.Commits[j].Subject) # {}}}
    IN  IF commitKeywords = {} THEN <<0, 1>>
        ELSE <<MaxOf(overlaps \cup {0}), Cardinality(commitKeywords)>>

\* calculateArtifactScore: the fraction of the commit's references that name
\* an artifact of the episode by "#<number>" or by its ID.
calculateArtifactScore(episode, commit) ==
    LET commitRefs == extractArtifactReferences(commit.Message)
        episodeRefs == UNION {{Ref("#", episode.Artifacts[i].Number), episode.Artifacts[i].ID} :
                                 i \in 1..Len(episode.Artifacts)}
        overlap == Cardinality(commitRefs \cap episodeRefs)
    IN  IF Len(episode.Artifacts) = 0 THEN <<0, 1>>
        ELSE IF commitRefs = {} THEN <<0, 1>>
        ELSE <<overlap, Cardinality(commitRefs)>>

\* A float64 that is NaN.
IsNaN(x) == x[2] = 0

\* calculateEpisodeSimilarity: the weighted sum as a fraction in hundredths;
\* NaN as soon as one score is NaN (NaN times any weight is NaN).
calculateEpisodeSimilarity(episode, commit, cfg) ==
    IF Len(episode.Commits) = 0 THEN <<0, 1>>
    ELSE
    LET lastCommit == episode.Commits[Len(episode.Commits)]
        timeScore == calculateTimeScore(lastCommit, commit, cfg.MaxTimeGap)
        authorScore == calculateAuthorScore(episode, commit)
        fileScore == calculateFileScore(episode, commit)
        messageScore == calculateMessageScore(episode, commit)
        artifactScore == calculateArtifactScore(episode, commit)
        den == timeScore[2] * authorScore[2] * fileScore[2] * messageScore[2] * artifactScore[2]
    IN  IF den = 0 THEN <<0, 0>>
        ELSE << timeScore[1] * cfg.TimeWeight * (den \div timeScore[2])
                + authorScore[1] * cfg.AuthorWeight * (den \div authorScore[2])
                + fileScore[1] * cfg.FileWeight * (den \div fileScore[2])
                + messageScore[1] * cfg.MessageWeight * (den \div messageScore[2])
                + artifactScore[1] * cfg.ArtifactWeight * (den \div artifactScore[2]),
               den >>

\* Mutant: the comparison is strict.
SimilarityClearsStrict(similarity, minScore) ==
    /\ similarity[2] # 0
    /\ similarity[1] > minScore * similarity[2]

\* The comparison similarity >= config.MinSimilarityScore (false for NaN).
SimilarityClears(similarity, minScore) ==
    /\ ~IsNaN(similarity)
    /\ similarity[1] >= minScore * similarity[2]

\* The identities of a list of artifacts.
ArtifactIDs(arts) == {arts[i].ID : i \in 1..Len(arts)}

\* First loop of addReferencedArtifacts: the references are visited in the
\* order "order" (Go iterates the map refs in an unspecified order); a
\* reference found in refMap appends its artifact unless the identity is
\* already in the episode.
RECURSIVE AddByReference(_, _, _, _)
AddByReference(arts, order, refMap, allArtifacts) ==
    IF order = <<>> THEN arts
    ELSE LET ref == Head(order)
             found == ref \in DOMAIN refMap
             artifact == allArtifacts[refMap[ref]]
         IN  IF found /\ artifact.ID \notin ArtifactIDs(arts)
             THEN AddByReference(Append(arts, artifact), Tail(order), refMap, allArtifacts)
             ELSE AddByReference(arts, Tail(order), refMap, allArtifacts)

\* Second loop of addReferencedArtifacts: every artifact not yet in the
\* episode that has a discussion carrying the commit's hash is appended.
RECURSIVE AddByDiscussion(_, _, _, _)
AddByDiscussion(arts, commit, allArtifacts, i) ==
    IF i > Len(allArtifacts) THEN arts
    ELSE LET artifact == allArtifacts[i]
         IN  IF /\ artifact.ID \notin ArtifactIDs(arts)
                /\ \E d \in 1..Len(artifact.Discussions) :
                       artifact.Discussions[d].CommitHash = commit.Hash
             THEN AddByDiscussion(Append(arts, artifact), commit, allArtifacts, i + 1)
             ELSE AddByDiscussion(arts, commit, allArtifacts, i + 1)

\* Mutant: existingArtifacts is not seeded with the episode's artifacts.
addReferencedArtifactsUnseeded(episode, commit, refMap, allArtifacts, order) ==
    [episode EXCEPT !.Artifacts =
        episode.Artifacts \o
            AddByDiscussion(AddByReference(<<>>, order, refMap, allArtifacts),
                            commit, allArtifacts, 1)]

\* addReferencedArtifacts
addReferencedArtifacts(episode, commit, refMap, allArtifacts, order) ==
    [episode EXCEPT !.Artifacts =
        AddByDiscussion(AddByReference(episode.Artifacts, order, refMap, allArtifacts),
                        commit, allArtifacts, 1)]

\* fmt.Sprintf("E%d", k); the empty tuple is the unset ID "".
EpisodeID(k) == <<"E", k>>

NoID == <<>>

\* Mutant: the new episode holds the commit twice.
NewEpisodeDoubled(commit) ==
    [ID |-> NoID, Commits |-> <<commit, commit>>, Artifacts |-> <<>>]

\* &Episode{Commits: []git.Commit{commit}}
NewEpisode(commit) == [ID |-> NoID, Commits |-> <<commit>>, Artifacts |-> <<>>]

\* Mutant: the identity is numbered from zero.
FinalizeCurrentZeroBased(eps, cur, cfg) ==
    IF Len(cur.Commits) >= cfg.MinCommits
    THEN Append(eps, [cur EXCEPT !.ID = EpisodeID(Len(eps))])
    ELSE eps

\* Finalizing the current episode when a commit does not fit (grouping.go 82-85).
FinalizeCurrent(eps, cur, cfg) ==
    IF Len(cur.Commits) >= cfg.MinCommits
    THEN Append(eps, [cur EXCEPT !.ID = EpisodeID(Len(eps) + 1)])
    ELSE eps

\* Mutant: the trailing episode is emitted without the MinCommits test.
FlushTrailingNoThreshold(eps, cur, cfg) ==
    Append(eps, [cur EXCEPT !.ID = EpisodeID(Len(eps) + 1)])

\* Flushing the current episode after the last commit (grouping.go 96-101).
FlushTrailing(eps, cur, cfg) ==
    IF Len(cur.Commits) >= cfg.MinCommits
    THEN Append(eps, [cur EXCEPT !.ID = EpisodeID(Len(eps) + 1)])
    ELSE eps

---------------------------------------------------------------------------
(* internal/rag: the vector store, the embedder and IndexEpisodes *)

\* Bounds of the indexing model.
MaxEpisodes == 2

MaxCalls == 2

\* The episode identities that are indexed.
EpisodeIdents == {EpisodeID(k) : k \in 1..MaxEpisodes}

\* An EpisodeSummary; the summary text belongs to the identity.
MkSummary(id) == [EpisodeID |-> id, Summary |-> <<"summary of", id>>, CommitCount |-> id[2]]

\* The episode lists IndexEpisodes is called with: summaries of clustered
\* episodes, whose identities are pairwise distinct.
SummaryLists ==
    UNION { {[i \in 1..n |-> MkSummary(ids[i])] :
                ids \in {f \in [1..n -> EpisodeIdents] :
                            \A i, j \in 1..n : i # j => f[i] # f[j]}} :
              n \in 0..MaxEpisodes }

\* The IndexOptions IndexEpisodes is called with (DefaultIndexOptions among them).
BatchSizes == {1, 2}

IndexOptionsSet ==
    [BatchSize : BatchSizes, ForceReindex : BOOLEAN, SkipExisting : BOOLEAN]

\* The embedding model: the vector of a text.  A vector is represented by
\* the number of the episode the text speaks of; the query texts have their own.
VectorOf(text) == text[2][2]

\* Embedder.Embed on a non-empty list: one record per text, in order, each
\* carrying its text and the vector of that text.
Embed(texts) ==
    [i \in 1..Len(texts) |->
        [Text |-> texts[i], Embedding |-> VectorOf(texts[i]), Index |-> i - 1]]

\* VectorStore.Query: for each identity, whether at least one record exists.
StoreQuery(st, ids) ==
    [id \in ids |-> \E i \in 1..Len(st) : st[i].EpisodeID = id]

\* Mutant: nothing is removed.
StoreDeleteNothing(st, ids) == st

\* VectorStore.Delete: remove all records of the given identities.
StoreDelete(st, ids) == SelectSeq(st, LAMBDA r : r.EpisodeID \notin ids)

\* VectorStore.Insert: the records are persisted; several records may share an identity.
StoreInsert(st, records) == st \o records

\* VectorStore.Flush: no inserted record is left pending.
StoreFlush(pending) == 0

\* The records a Search observes: all but the pending ones.
Visible(st, pending) == SubSeq(st, 1, Len(st) - pending)

\* The identities of a list of summaries.
IdentsOf(eps) == {eps[i].EpisodeID : i \in 1..Len(eps)}

\* Mutant: a failed existence query leaves nothing to index.
OnQueryErrorNone(eps) == <<>>

\* filterNewEpisodes when the existence query fails: all episodes are returned.
OnQueryError(eps) == eps

\* Mutant: every episode is passed on, whatever the store reports.
filterNewEpisodesAll(eps, queryFails, st) == eps

\* filterNewEpisodes: the episodes whose identity the store does not report;
\* all of them when the query fails.
filterNewEpisodes(eps, queryFails, st) ==
    IF Len(eps) = 0 THEN eps
    ELSE IF queryFails THEN OnQueryError(eps)
    ELSE LET existingMap == StoreQuery(st, IdentsOf(eps))
         IN  SelectSeq(eps, LAMBDA ep : ~existingMap[ep.EpisodeID])

\* Mutant: each batch reaches one episode into the next.
BatchAtOverlapping(toIndex, start, size) ==
    LET batchEnd == IF start + size + 1 > Len(toIndex) THEN Len(toIndex) ELSE start + size + 1
    IN  SubSeq(toIndex, start + 1, batchEnd)

\* The batch [batchStart, batchEnd) of the residual list.
BatchAt(toIndex, start, size) ==
    LET batchEnd == IF start + size > Len(toIndex) THEN Len(toIndex) ELSE start + size
    IN  SubSeq(toIndex, start + 1, batchEnd)

\* episodesToIndex[batchStart:batchEnd] panics ("slice bounds out of range")
\* when batchEnd is below batchStart, which a negative BatchSize brings about.
SlicePanics(toIndex, start, size) ==
    (IF start + size > Len(toIndex) THEN Len(toIndex) ELSE start + size) < start

\* Mutant: the embeddings are paired with the batch back to front.
EpisodeRecordsReversed(batch, embs) ==
    [i \in 1..Len(batch) |->
        [EpisodeID |-> batch[i].EpisodeID, Text |-> embs[Len(batch) + 1 - i].Text,
         Embedding |-> embs[Len(batch) + 1 - i].Embedding,
         CommitCount |-> batch[i].CommitCount]]

\* The EpisodeRecords built from a batch and the embeddings of its summaries.
EpisodeRecords(batch, embs) ==
    [i \in 1..Len(batch) |->
        [EpisodeID |-> batch[i].EpisodeID, Text |-> embs[i].Text,
         Embedding |-> embs[i].Embedding, CommitCount |-> batch[i].CommitCount]]

\* Mutant: the error does not name the batch.
BatchErrorUnnamed(msg, start, cause) == <<msg, 0, cause>>

\* fmt.Errorf("failed to ... batch starting at %d: %w", batchStart, err): the
\* message, the start index of the batch and the wrapped cause.
BatchError(msg, start, cause) == <<msg, start, cause>>

\* Mutant: the batch is inserted but not flushed.
StepAfterSkipFlush(step) ==
    CASE step = "embed" -> "insert"
      [] step = "insert" -> "embed"
      [] step = "flush" -> "embed"

\* The order of the steps of one pass of the batch loop: Embed, Insert,
\* Flush, then the next pass.
StepAfter(step) ==
    CASE step = "embed" -> "insert"
      [] step = "insert" -> "flush"
      [] step = "flush" -> "embed"

\* A collaborator call as the log records it: the operation, the start index
\* of the batch it is made for (0 for Delete and Query), whether it
\* succeeded, and the identities it was given.
LogEntry(op, start, ok, eps) ==
    [op |-> op, start |-> start, ok |-> ok, ids |-> [i \in 1..Len(eps) |-> eps[i].EpisodeID]]

\* What the history records about the calls made so far.
NoHistory == [onlySkipExisting |-> TRUE, queryFailed |-> FALSE]

\* No GroupIntoEpisodes call is in progress.
GroupUnused ==
    /\ pc = "unused"
    /\ raCommits = <<>>
    /\ raArtifacts = <<>>
    /\ config = DefaultGroupingConfig
    /\ commits = <<>>
    /\ idx = 0
    /\ currentEpisode = <<>>
    /\ episodes = <<>>
    /\ firstRun = <<>>

\* No retrieval is in progress.
RetrUnused ==
    /\ rtPc = "unused"
    /\ rtArgs = <<>>
    /\ rtLog = <<>>
    /\ rtSearched = <<>>
    /\ rtResult = <<>>

\* No prompt is being assembled.
PromptUnused ==
    /\ prPc = 0
    /\ prEpisode = <<>>
    /\ prContextA = <<>>
    /\ prContextB = <<>>
    /\ promptA = <<>>
    /\ promptB = <<>>

\* No review list is being aggregated.
ReviewUnused ==
    /\ rvPc = "unused"
    /\ rvReviews = <<>>
    /\ rvResult = ""

\* No project narrative is being generated.
HybridUnused ==
    /\ hyPc = "unused"
    /\ hyQuery = <<>>
    /\ hyEpisodes = <<>>
    /\ hyConfig = [TopK |-> 5, MaxContextSize |-> 10]
    /\ hyRetrieved = <<>>
    /\ hyAugmented = <<>>
    /\ hyContext = <<>>
    /\ hyResult = "pending"

\* No MilvusStore.Insert call has been made.
MilvusUnused ==
    /\ msPc = "unused"
    /\ msArgs = [records |-> <<>>, metadata |-> [episode_id |-> <<>>]]
    /\ msCollection = <<>>
    /\ msBefore = <<>>
    /\ msResult = "pending"

\* No adapter conversion has been made.
ConvertUnused ==
    /\ cvPc = "unused"
    /\ cvRecord = [Kind |-> "issue", Comments |-> <<>>, ReviewComments |-> <<>>, Reviews |-> <<>>]
    /\ cvDiscussions = <<>>

PipelineUnused ==
    /\ plPc = "unused"
    /\ plCaller = "test"
    /\ plConfig = [MilvusDimension |-> 3072, LLMModel |-> "gpt-4o", LLMAPIKey |-> ""]
    /\ plEnvKey = ""
    /\ plStoreOpen = FALSE
    /\ plEverOpened = FALSE
    /\ plDeferred = FALSE
    /\ plResult = "pending"

AnalyzeUnused ==
    /\ anPc = "unused"
    /\ anRepo = [Platform |-> "git", Owner |-> "", Name |-> ""]
    /\ anToken = ""
    /\ anCancelled = FALSE
    /\ anActivity = <<>>
    /\ anClustered = FALSE
    /\ anCancelledInTime = FALSE
    /\ anResult = "pending"

\* No IndexEpisodes call has been made and the store is empty.
IndexUnused ==
    /\ ixPc = "unused"
    /\ ixEpisodes = <<>>
    /\ ixOpts = [BatchSize |-> 10, ForceReindex |-> FALSE, SkipExisting |-> TRUE]
    /\ episodesToIndex = <<>>
    /\ batchStart = 0
    /\ embeddingRecords = <<>>
    /\ ixResult = "pending"
    /\ store = <<>>
    /\ unflushed = 0
    /\ ixCalls = 0
    /\ insertCount = [id \in EpisodeIdents |-> 0]
    /\ ixHistory = NoHistory
    /\ ixLog = <<>>

InitIndex ==
    /\ MilvusUnused
    /\ ConvertUnused
    /\ PipelineUnused
    /\ AnalyzeUnused
    /\ GroupUnused
    /\ ReviewUnused
    /\ HybridUnused
    /\ RetrUnused
    /\ PromptUnused
    /\ ixPc = "idle"
    /\ ixEpisodes = <<>>
    /\ ixOpts = [BatchSize |-> 10, ForceReindex |-> FALSE, SkipExisting |-> TRUE]
    /\ episodesToIndex = <<>>
    /\ batchStart = 0
    /\ embeddingRecords = <<>>
    /\ ixResult = "pending"
    /\ store = <<>>
    /\ unflushed = 0
    /\ ixCalls = 0
    /\ insertCount = [id \in EpisodeIdents |-> 0]
    /\ ixHistory = NoHistory
    /\ ixLog = <<>>

\* IndexEpisodes 668-670: nothing to index.
IndexCallEmpty ==
    /\ ixPc = "idle"
    /\ ixCalls < MaxCalls
    /\ \E opts \in IndexOptionsSet :
         /\ ixEpisodes' = <<>>
         /\ ixOpts' = opts
    /\ ixCalls' = ixCalls + 1
    /\ episodesToIndex' = <<>>
    /\ batchStart' = 0
    /\ embeddingRecords' = <<>>
    /\ ixResult' = "nil"
    /\ ixPc' = "returned"
    /\ ixLog' = <<>>
    /\ UNCHANGED <<store, unflushed, insertCount, ixHistory>>
    /\ UNCHANGED <<groupVars, retrVars, promptVars, reviewVars, hybridVars, analyzeVars, pipelineVars, convertVars, milvusVars>>

\* IndexEpisodes 680-698: the call with a non-empty list; Delete under
\* ForceReindex, filterNewEpisodes under SkipExisting without ForceReindex.
\* Delete and Query are store calls that may fail.
IndexCall ==
    /\ ixPc = "idle"
    /\ ixCalls < MaxCalls
    /\ \E eps \in SummaryLists, opts \in IndexOptionsSet, storeFails \in BOOLEAN :
         /\ Len(eps) # 0
         /\ ixEpisodes' = eps
         /\ ixOpts' = opts
         /\ ixHistory' =
              [onlySkipExisting |-> ixHistory.onlySkipExisting
                                      /\ opts.SkipExisting /\ ~opts.ForceReindex,
               queryFailed |-> ixHistory.queryFailed
                                 \/ (opts.SkipExisting /\ ~opts.ForceReindex /\ storeFails)]
         /\ ixLog' = IF opts.ForceReindex
                      THEN <<LogEntry("Delete", 0, ~storeFails, eps)>>
                      ELSE IF opts.SkipExisting
                      THEN <<LogEntry("Query", 0, ~storeFails, eps)>>
                      ELSE <<>>
         /\ IF opts.ForceReindex /\ storeFails
            THEN /\ ixResult' = "failed to delete existing episodes"
                 /\ ixPc' = "returned"
                 /\ episodesToIndex' = <<>>
                 /\ store' = store
            ELSE /\ ixResult' = "pending"
                 /\ ixPc' = "embed"
                 /\ store' = IF opts.ForceReindex THEN StoreDelete(store, IdentsOf(eps))
                             ELSE store
                 /\ episodesToIndex' =
                      IF opts.SkipExisting /\ ~opts.ForceReindex
                      THEN filterNewEpisodes(eps, storeFails, store)
                      ELSE eps
    /\ ixCalls' = ixCalls + 1
    /\ batchStart' = 0
    /\ embeddingRecords' = <<>>
    /\ UNCHANGED <<unflushed, insertCount>>
    /\ UNCHANGED <<groupVars, retrVars, promptVars, reviewVars, hybridVars, analyzeVars, pipelineVars, convertVars, milvusVars>>

\* IndexEpisodes 701 and 746: the loop condition fails, return nil.
IndexDone ==
    /\ ixPc = "embed"
    /\ ~(batchStart < Len(episodesToIndex))
    /\ ixResult' = "nil"
    /\ ixPc' = "returned"
    /\ UNCHANGED <<ixEpisodes, ixOpts, episodesToIndex, batchStart, embeddingRecords,
                   store, unflushed, ixCalls, insertCount, ixHistory, ixLog>>
    /\ UNCHANGED <<groupVars, retrVars, promptVars, reviewVars, hybridVars, analyzeVars, pipelineVars, convertVars, milvusVars>>

\* IndexEpisodes 701-719: take the next batch and embed its summaries.
IndexEmbed ==
    /\ ixPc = "embed"
    /\ batchStart < Len(episodesToIndex)
    /\ LET batch == BatchAt(episodesToIndex, batchStart, ixOpts.BatchSize)
           texts == [i \in 1..Len(batch) |-> batch[i].Summary]
       IN  IF SlicePanics(episodesToIndex, batchStart, ixOpts.BatchSize)
           THEN /\ ixResult' = "panic"
                /\ ixPc' = "returned"
                /\ UNCHANGED <<embeddingRecords, ixLog>>
           ELSE
           \E embedFails \in BOOLEAN :
             /\ ixLog' = Append(ixLog, LogEntry("Embed", batchStart,
                                                 ~(embedFails \/ Len(texts) = 0), batch))
             /\ IF embedFails \/ Len(texts) = 0
                THEN /\ ixResult' = BatchError("failed to generate embeddings for batch starting at",
                                               batchStart, "Embed error")
                     /\ ixPc' = "returned"
                     /\ embeddingRecords' = <<>>
                ELSE /\ embeddingRecords' = Embed(texts)
                     /\ ixPc' = StepAfter("embed")
                     /\ ixResult' = ixResult
    /\ UNCHANGED <<ixEpisodes, ixOpts, episodesToIndex, batchStart,
                   store, unflushed, ixCalls, insertCount, ixHistory>>
    /\ UNCHANGED <<groupVars, retrVars, promptVars, reviewVars, hybridVars, analyzeVars, pipelineVars, convertVars, milvusVars>>

\* IndexEpisodes 721-738: build the records of the batch and insert them.
IndexInsert ==
    /\ ixPc = "insert"
    /\ LET batch == BatchAt(episodesToIndex, batchStart, ixOpts.BatchSize)
           episodeRecords == EpisodeRecords(batch, embeddingRecords)
       IN  \E insertFails \in BOOLEAN :
             /\ ixLog' = Append(ixLog, LogEntry("Insert", batchStart, ~insertFails,
                                                 episodeRecords))
             /\ IF insertFails
                THEN /\ ixResult' = BatchError("failed to insert batch starting at",
                                               batchStart, "Insert error")
                     /\ ixPc' = "returned"
                     /\ UNCHANGED <<store, unflushed, insertCount>>
                ELSE /\ store' = StoreInsert(store, episodeRecords)
                     /\ unflushed' = unflushed + Len(episodeRecords)
                     /\ insertCount' =
                          [id \in EpisodeIdents |->
                             insertCount[id]
                               + Cardinality({i \in 1..Len(batch) : batch[i].EpisodeID = id})]
                     /\ ixPc' = StepAfter("insert")
                     /\ ixResult' = ixResult
    /\ UNCHANGED <<ixEpisodes, ixOpts, episodesToIndex, batchStart, embeddingRecords,
                   ixCalls, ixHistory>>
    /\ UNCHANGED <<groupVars, retrVars, promptVars, reviewVars, hybridVars, analyzeVars, pipelineVars, convertVars, milvusVars>>

\* IndexEpisodes 740-744: flush, then advance to the next batch.
IndexFlush ==
    /\ ixPc = "flush"
    /\ \E flushFails \in BOOLEAN :
         /\ ixLog' = Append(ixLog,
                             LogEntry("Flush", batchStart, ~flushFails,
                                      BatchAt(episodesToIndex, batchStart, ixOpts.BatchSize)))
         /\ IF flushFails
            THEN /\ ixResult' = BatchError("failed to flush batch starting at",
                                           batchStart, "Flush error")
                 /\ ixPc' = "returned"
                 /\ UNCHANGED <<unflushed, batchStart>>
            ELSE /\ unflushed' = StoreFlush(unflushed)
                 /\ batchStart' = batchStart + ixOpts.BatchSize
                 /\ ixPc' = StepAfter("flush")
                 /\ ixResult' = ixResult
    /\ UNCHANGED <<ixEpisodes, ixOpts, episodesToIndex, embeddingRecords,
                   store, ixCalls, insertCount, ixHistory>>
    /\ UNCHANGED <<groupVars, retrVars, promptVars, reviewVars, hybridVars, analyzeVars, pipelineVars, convertVars, milvusVars>>

\* The call ended in the slice expression of the batch loop: the panic
\* unwinds the goroutine and no result reaches the caller.
IndexPanicked ==
    /\ ixPc = "returned"
    /\ batchStart < Len(episodesToIndex)
    /\ SlicePanics(episodesToIndex, batchStart, ixOpts.BatchSize)

\* The caller has the result; another call may follow.
IndexReturn ==
    /\ ixPc = "returned"
    /\ ~IndexPanicked
    /\ ixPc' = "idle"
    /\ UNCHANGED <<ixEpisodes, ixOpts, episodesToIndex, batchStart, embeddingRecords,
                   ixResult, store, unflushed, ixCalls, insertCount, ixHistory, ixLog>>
    /\ UNCHANGED <<groupVars, retrVars, promptVars, reviewVars, hybridVars, analyzeVars, pipelineVars, convertVars, milvusVars>>

NextIndex ==
    IndexCallEmpty \/ IndexCall \/ IndexDone \/ IndexEmbed \/ IndexInsert \/ IndexFlush
        \/ IndexReturn

SpecIndex == InitIndex /\ [][NextIndex]_vars

ResidualSlice(start, size) ==
    [i \in 1..(IF start + size > Len(episodesToIndex)
               THEN Len(episodesToIndex) - start ELSE size) |->
        episodesToIndex[start + i].EpisodeID]

\* The log entry is a failed Embed, Insert or Flush.
FailedStep(entry) == entry.op \in {"Embed", "Insert", "Flush"} /\ ~entry.ok

\* The error IndexEpisodes is to return for a failed step.
ExpectedError(entry) ==
    CASE entry.op = "Embed" ->
           <<"failed to generate embeddings for batch starting at", entry.start, "Embed error">>
      [] entry.op = "Insert" ->
           <<"failed to insert batch starting at", entry.start, "Insert error">>
      [] entry.op = "Flush" ->
           <<"failed to flush batch starting at", entry.start, "Flush error">>

\* C14: a failed Embed, Insert or Flush is the last collaborator call of the
\* run; the run has returned an error that wraps the cause and names the
\* start index, within the residual list, of the batch the step was made for.
C14_BatchFailureAborts ==
    \A i \in 1..Len(ixLog) :
        FailedStep(ixLog[i]) =>
            /\ i = Len(ixLog)
            /\ ixPc \in {"returned", "idle"}
            /\ ixResult = ExpectedError(ixLog[i])
            /\ ixLog[i].ids = ResidualSlice(ixLog[i].start, ixOpts.BatchSize)
            /\ ixLog[i].start < Len(episodesToIndex)

\* A run in batches of one whose first batch was embedded, inserted and
\* flushed and whose second batch failed to insert; the error names index 1.
C14_Witness ==
    /\ ixPc = "returned"
    /\ ixOpts.BatchSize = 1
    /\ Len(episodesToIndex) = 2
    /\ Len(ixLog) >= 5
    /\ ixLog[Len(ixLog)].op = "Insert"
    /\ ~ixLog[Len(ixLog)].ok
    /\ ixLog[Len(ixLog)].start = 1
    /\ ixResult[2] = 1
    /\ Len(store) = 1

\* How many records of the identity the store holds.
RecordCount(st, id) == Cardinality({i \in 1..Len(st) : st[i].EpisodeID = id})

\* How many records of the identity the successful Inserts of the current
\* run were given.
InsertedThisRun(id) ==
    Cardinality({<<i, j>> \in (1..Len(ixLog)) \X (1..MaxEpisodes) :
                    /\ ixLog[i].op = "Insert" /\ ixLog[i].ok
                    /\ j <= Len(ixLog[i].ids) /\ ixLog[i].ids[j] = id})

\* C15: in a run with ForceReindex on a non-empty list the first collaborator
\* call is the Delete of all input identities and no existence query is
\* made; a failed Delete is the only call of the run; after a successful run
\* the store's records of each input identity are those this run inserted.
C15_ForceReindex ==
    (ixPc \in {"embed", "insert", "flush", "returned"} /\ ixOpts.ForceReindex
        /\ Len(ixEpisodes) > 0)
        => /\ Len(ixLog) >= 1
           /\ ixLog[1] = LogEntry("Delete", 0, ixLog[1].ok, ixEpisodes)
           /\ \A i \in 2..Len(ixLog) : ixLog[i].op \in {"Embed", "Insert", "Flush"}
           /\ episodesToIndex = IF ixLog[1].ok THEN ixEpisodes ELSE <<>>
           /\ ~ixLog[1].ok =>
                /\ Len(ixLog) = 1
                /\ ixPc = "returned"
                /\ ixResult = "failed to delete existing episodes"
           /\ (ixPc = "returned" /\ ixLog[Len(ixLog)].ok) =>
                \A id \in IdentsOf(ixEpisodes) :
                    /\ RecordCount(store, id) = InsertedThisRun(id)
                    /\ RecordCount(store, id) = 1

\* A successful second run with ForceReindex on an identity the first run had
\* inserted: the identity was inserted twice and the store holds one record of it.
C15_Witness ==
    /\ ixPc = "returned"
    /\ ixCalls = 2
    /\ ixOpts.ForceReindex
    /\ Len(ixEpisodes) > 0
    /\ ixLog[Len(ixLog)].op = "Flush"
    /\ ixLog[Len(ixLog)].ok
    /\ \E id \in IdentsOf(ixEpisodes) : insertCount[id] = 2 /\ RecordCount(store, id) = 1

\* The existence query of the current run failed.
QueryFailedThisRun == Len(ixLog) >= 1 /\ ixLog[1].op = "Query" /\ ~ixLog[1].ok

\* The identities the log entries of one operation were given, in order.
RECURSIVE IdsGivenTo(_, _)
IdsGivenTo(op, log) ==
    IF Len(log) = 0 THEN <<>>
    ELSE (IF Head(log).op = op /\ Head(log).ok THEN Head(log).ids ELSE <<>>)
            \o IdsGivenTo(op, Tail(log))

\* C16: when the existence query of a run with SkipExisting fails, the run
\* goes on with every input episode as the residual list; no error is
\* returned for the query, and unless a later step fails every input episode
\* is embedded and inserted.
C16_QueryFailureProceeds ==
    QueryFailedThisRun =>
        /\ ixOpts.SkipExisting
        /\ episodesToIndex = ixEpisodes
        /\ ixPc \in {"returned", "idle"} =>
             \/ FailedStep(ixLog[Len(ixLog)]) /\ ixResult = ExpectedError(ixLog[Len(ixLog)])
             \/ /\ ixLog[Len(ixLog)].ok
                /\ ixResult = "nil"
                /\ IdsGivenTo("Embed", ixLog) = LogEntry("", 0, TRUE, ixEpisodes).ids
                /\ IdsGivenTo("Insert", ixLog) = LogEntry("", 0, TRUE, ixEpisodes).ids

\* A run whose existence query failed returned nil after inserting both input
\* episodes, one of which the store already held.
C16_Witness ==
    /\ ixPc = "returned"
    /\ QueryFailedThisRun
    /\ ixLog[Len(ixLog)].ok
    /\ Len(ixEpisodes) = 2
    /\ Len(store) = 3

\* The Embed, Insert and Flush calls of the current run, in order.
BatchSteps == SelectSeq(ixLog, LAMBDA e : e.op \in {"Embed", "Insert", "Flush"})

\* C17: the batch steps of a run are Embed, Insert, Flush of the first batch,
\* then Embed, Insert, Flush of the next, and so on, each step made after the
\* one before it succeeded; when the run returns nil every batch has been
\* flushed and every record the run inserted (the last records of the store)
\* is visible to Search.
C17_EmbedInsertFlush ==
    /\ \A k \in 1..Len(BatchSteps) :
          /\ BatchSteps[k].op = <<"Embed", "Insert", "Flush">>[((k - 1) % 3) + 1]
          /\ BatchSteps[k].start = ((k - 1) \div 3) * ixOpts.BatchSize
          /\ k < Len(BatchSteps) => BatchSteps[k].ok
    /\ (ixPc = "returned" /\ (Len(ixLog) = 0 \/ ixLog[Len(ixLog)].ok)
           /\ ~(Len(ixLog) = 1 /\ ixLog[1].op = "Delete" /\ ~ixLog[1].ok))
          => /\ Len(BatchSteps) % 3 = 0
             /\ LET n == Len(IdsGivenTo("Insert", ixLog))
                IN  \A i \in Len(store) - n + 1..Len(store) :
                        /\ i <= Len(Visible(store, unflushed))
                        /\ Visible(store, unflushed)[i] = store[i]

\* A run in batches of one returned nil after two batches: six batch steps,
\* two records in the store, none pending.
C17_Witness ==
    /\ ixPc = "returned"
    /\ ixOpts.BatchSize = 1
    /\ Len(BatchSteps) = 6
    /\ BatchSteps[6].ok
    /\ Len(store) = 2
    /\ unflushed = 0

\* The residual list the code settles on before the batch loop: the input,
\* less the identities the store reported when SkipExisting applies and the
\* existence query succeeded.
IsResidual ==
    /\ \A i \in 1..Len(episodesToIndex) : \E j \in 1..Len(ixEpisodes) :
          episodesToIndex[i] = ixEpisodes[j]
    /\ (ixOpts.ForceReindex \/ ~ixOpts.SkipExisting \/ QueryFailedThisRun)
          => episodesToIndex = ixEpisodes

\* C18: the batches of a run are consecutive slices of the residual list in
\* order, each of BatchSize episodes except possibly the last; when the run
\* returns nil the Embed calls, and the Insert calls, were given exactly the
\* residual list, each episode once, in order.
C18_Batching ==
    (ixPc \in {"embed", "insert", "flush", "returned"} /\ Len(ixEpisodes) > 0
        /\ ~(Len(ixLog) = 1 /\ ixLog[1].op = "Delete" /\ ~ixLog[1].ok))
        => /\ IsResidual
           /\ \A k \in 1..Len(BatchSteps) :
                 /\ BatchSteps[k].ids = ResidualSlice(BatchSteps[k].start, ixOpts.BatchSize)
                 /\ Len(BatchSteps[k].ids) >= 1
                 /\ BatchSteps[k].start + ixOpts.BatchSize < Len(episodesToIndex)
                      => Len(BatchSteps[k].ids) = ixOpts.BatchSize
           /\ (ixPc = "returned" /\ (Len(ixLog) = 0 \/ ixLog[Len(ixLog)].ok))
                 => /\ IdsGivenTo("Embed", ixLog) = LogEntry("", 0, TRUE, episodesToIndex).ids
                    /\ IdsGivenTo("Insert", ixLog) = LogEntry("", 0, TRUE, episodesToIndex).ids

\* A run in batches of one over a residual list of two episodes returned
\* nil: two batches, the second starting at index 1, and the store holds the
\* two episodes in input order.
C18_Witness ==
    /\ ixPc = "returned"
    /\ ixOpts.BatchSize = 1
    /\ Len(episodesToIndex) = 2
    /\ Len(BatchSteps) = 6
    /\ BatchSteps[6].ok
    /\ BatchSteps[4].start = 1
    /\ Len(store) = 2
    /\ store[1].EpisodeID = ixEpisodes[1].EpisodeID
    /\ store[2].EpisodeID = ixEpisodes[2].EpisodeID

\* The input episode of the current or an earlier run that has the identity.
InputEpisode(id) == MkSummary(id)

\* C19: every record in the store carries the identity and metadata of one
\* input episode together with the text and the vector the embedder produced
\* for that episode's summary.
C19_RecordPairing ==
    \A i \in 1..Len(store) :
        LET r == store[i]
            ep == InputEpisode(r.EpisodeID)
        IN  /\ r.EpisodeID \in EpisodeIdents
            /\ r.Text = ep.Summary
            /\ r.Embedding = Embed(<<ep.Summary>>)[1].Embedding
            /\ r.CommitCount = ep.CommitCount

\* A run inserted a batch of two episodes in one Insert; the two records
\* carry different texts and vectors.
C19_Witness ==
    /\ ixPc = "returned"
    /\ ixOpts.BatchSize = 2
    /\ Len(BatchSteps) = 3
    /\ BatchSteps[2].ok
    /\ Len(BatchSteps[2].ids) = 2
    /\ Len(store) = 2
    /\ store[1].EpisodeID # store[2].EpisodeID
    /\ store[1].Embedding # store[2].Embedding
    /\ store[1].Text # store[2].Text

---------------------------------------------------------------------------
(* internal/rag: Retriever.RetrieveContextForEpisode *)

\* Bounds of the retrieval model.
MaxRecords == 3

MaxTopK == 2

\* The identities that occur in the store of the retrieval model.
RetrIdents == {EpisodeID(k) : k \in 1..3}

\* The stored record of an episode, as IndexEpisodes builds it.
RecordOf(id) ==
    EpisodeRecords(<<MkSummary(id)>>, Embed(<<MkSummary(id).Summary>>))[1]

\* The store contents a retrieval runs against: up to MaxRecords records;
\* several records may share an identity.
RetrStores ==
    UNION { {[i \in 1..n |-> RecordOf(ids[i])] : ids \in [1..n -> RetrIdents]} :
              n \in 0..MaxRecords }

\* The nil query vector (no text has the vector 0).
NilVector == 0

\* Cosine similarity of a query vector and a stored vector, in thousandths; a
\* search without a query vector only filters and scores every record alike.
Cosine(q, v) == IF q = NilVector THEN 1000 ELSE 1000 - 100 * Abs(q - v)

\* The ContextChunk of the stored record r found with query vector q.
ChunkOf(r, q) ==
    [EpisodeID |-> r.EpisodeID, Text |-> r.Text, Score |-> Cosine(q, r.Embedding),
     CommitCount |-> r.CommitCount]

\* VectorStore.Search when it succeeds: the topK best records that pass the
\* episode_ids filter (all of them if fewer), by descending score; ties in
\* any order.
StoreSearch(st, q, topK, episodeIDs) ==
    LET matching == {i \in 1..Len(st) : episodeIDs = {} \/ st[i].EpisodeID \in episodeIDs}
        n == IF topK < Cardinality(matching) THEN topK ELSE Cardinality(matching)
        score(i) == Cosine(q, st[i].Embedding)
        picks == {f \in [1..n -> matching] :
                    /\ \A i, j \in 1..n : i # j => f[i] # f[j]
                    /\ \A i \in 1..n - 1 : score(f[i]) >= score(f[i + 1])
                    /\ \A m \in matching :
                         (\A i \in 1..n : f[i] # m) => \A i \in 1..n : score(f[i]) >= score(m)}
    IN  {[i \in 1..n |-> ChunkOf(st[f[i]], q)] : f \in picks}

\* Mutant: the result is truncated to topK without dropping the episode itself.
FilterSelfTruncateOnly(chunks, episodeID, topK) ==
    SubSeq(chunks, 1, IF Len(chunks) < topK THEN Len(chunks) ELSE topK)

\* part_013 89-98: the first topK chunks that do not belong to the episode.
FilterSelf(chunks, episodeID, topK) ==
    LET others == SelectSeq(chunks, LAMBDA ch : ch.EpisodeID # episodeID)
    IN  SubSeq(others, 1, IF Len(others) < topK THEN Len(others) ELSE topK)

\* The options a caller passes: nil, or a filter on episode identities and
\* a repository.
NilOptions == <<>>

SearchOptionsSet ==
    {NilOptions} \cup {[EpisodeIDs |-> {id}, Repository |-> "thunk"] : id \in RetrIdents}

InitRetr ==
    /\ MilvusUnused
    /\ ConvertUnused
    /\ PipelineUnused
    /\ AnalyzeUnused
    /\ GroupUnused
    /\ ReviewUnused
    /\ HybridUnused
    /\ PromptUnused
    /\ ixPc = "unused"
    /\ ixEpisodes = <<>>
    /\ ixOpts = [BatchSize |-> 10, ForceReindex |-> FALSE, SkipExisting |-> TRUE]
    /\ episodesToIndex = <<>>
    /\ batchStart = 0
    /\ embeddingRecords = <<>>
    /\ ixResult = "pending"
    /\ store \in RetrStores
    /\ unflushed = 0
    /\ ixCalls = 0
    /\ insertCount = [id \in EpisodeIdents |-> 0]
    /\ ixHistory = NoHistory
    /\ ixLog = <<>>
    /\ rtPc = "idle"
    /\ rtArgs = <<>>
    /\ rtLog = <<>>
    /\ rtSearched = <<>>
    /\ rtResult = <<>>

\* Mutant: the answer of the existence check is not looked at.
EpisodeMissingNever(existenceMap, episodeID) == FALSE

\* part_013 51-53: the store does not report the identity as present.
EpisodeMissing(existenceMap, episodeID) == ~existenceMap[episodeID]

\* The value a failed call returns.
Failed(msg) == [err |-> msg, chunks |-> <<>>]

\* RetrieveContextForEpisode 36-41: the arguments are rejected.
RetrieveInvalid ==
    /\ rtPc = "idle"
    /\ \E episodeID \in RetrIdents \cup {NoID}, topK \in 0..MaxTopK, opts \in SearchOptionsSet :
         /\ episodeID = NoID \/ topK <= 0
         /\ rtArgs' = [episodeID |-> episodeID, topK |-> topK, opts |-> opts]
         /\ rtResult' = IF episodeID = NoID THEN Failed("episode ID cannot be empty")
                        ELSE Failed("topK must be positive")
    /\ rtLog' = <<>>
    /\ rtSearched' = <<>>
    /\ rtPc' = "returned"
    /\ UNCHANGED <<groupVars, indexVars, promptVars, reviewVars, hybridVars, analyzeVars, pipelineVars, convertVars, milvusVars>>

\* RetrieveContextForEpisode 43-101 with valid arguments.  Query, Search and
\* Embed are collaborator calls, each of which may fail.
RetrieveContextForEpisode ==
    /\ rtPc = "idle"
    /\ \E episodeID \in RetrIdents, topK \in 1..MaxTopK, opts \in SearchOptionsSet,
          failAt \in {"none", "Query", "Search episode", "Embed", "Search similar"} :
         LET existenceMap == StoreQuery(store, {episodeID})
             found == StoreSearch(store, NilVector, 1, {episodeID})
         IN  /\ rtArgs' = [episodeID |-> episodeID, topK |-> topK, opts |-> opts]
             /\ IF failAt = "Query"
                THEN /\ rtResult' = Failed("failed to check episode existence")
                     /\ rtLog' = <<"Query">>
                     /\ rtSearched' = <<>>
                ELSE IF EpisodeMissing(existenceMap, episodeID)
                THEN /\ rtResult' = Failed("episode not found in vector store")
                     /\ rtLog' = <<"Query">>
                     /\ rtSearched' = <<>>
                ELSE IF failAt = "Search episode"
                THEN /\ rtResult' = Failed("failed to retrieve episode")
                     /\ rtLog' = <<"Query", "Search">>
                     /\ rtSearched' = <<>>
                ELSE \E episodeChunks \in found :
                     IF Len(episodeChunks) = 0
                     THEN /\ rtResult' = Failed("episode not found")
                          /\ rtLog' = <<"Query", "Search">>
                          /\ rtSearched' = <<>>
                     ELSE IF failAt = "Embed"
                     THEN /\ rtResult' = Failed("failed to embed episode text")
                          /\ rtLog' = <<"Query", "Search", "Embed">>
                          /\ rtSearched' = <<>>
                     ELSE LET queryVector == Embed(<<episodeChunks[1].Text>>)[1].Embedding
                          IN  IF failAt = "Search similar"
                              THEN /\ rtResult' = Failed("failed to search similar episodes")
                                   /\ rtLog' = <<"Query", "Search", "Embed", "Search">>
                                   /\ rtSearched' = <<>>
                              ELSE \E chunks \in StoreSearch(store, queryVector, topK + 1, {}) :
                                     /\ rtSearched' = chunks
                                     /\ rtLog' = <<"Query", "Search", "Embed", "Search">>
                                     /\ rtResult' = [err |-> "nil",
                                                     chunks |-> FilterSelf(chunks, episodeID, topK)]
    /\ rtPc' = "returned"
    /\ UNCHANGED <<groupVars, indexVars, promptVars, reviewVars, hybridVars, analyzeVars, pipelineVars, convertVars, milvusVars>>

\* The caller has the result; another retrieval may follow.
RetrieveReturn ==
    /\ rtPc = "returned"
    /\ rtPc' = "idle"
    /\ rtArgs' = <<>>
    /\ rtLog' = <<>>
    /\ rtSearched' = <<>>
    /\ rtResult' = <<>>
    /\ UNCHANGED <<groupVars, indexVars, promptVars, reviewVars, hybridVars, analyzeVars, pipelineVars, convertVars, milvusVars>>

NextRetr == RetrieveInvalid \/ RetrieveContextForEpisode \/ RetrieveReturn

SpecRetr == InitRetr /\ [][NextRetr]_vars

\* C5: RetrieveContextForEpisode(id, topK, options) never returns a chunk
\* whose EpisodeID is id.
C5_SelfExclusion ==
    rtPc = "returned" =>
        \A i \in 1..Len(rtResult.chunks) : rtResult.chunks[i].EpisodeID # rtArgs.episodeID

\* A successful retrieval whose similarity search returned the episode itself
\* and which handed back topK chunks of other episodes.
C5_Witness ==
    /\ rtPc = "returned"
    /\ rtResult.err = "nil"
    /\ \E i \in 1..Len(rtSearched) : rtSearched[i].EpisodeID = rtArgs.episodeID
    /\ Len(rtResult.chunks) = rtArgs.topK
    /\ rtArgs.topK = 2

\* The episodes other than id of which the store holds a record.
OtherEpisodes(st, id) == {st[i].EpisodeID : i \in 1..Len(st)} \ {id}

\* C13: a successful RetrieveContextForEpisode(id, topK, options) on a store
\* that holds at least topK episodes other than id returns exactly topK chunks.
C13_ExactTopK ==
    (/\ rtPc = "returned"
     /\ rtResult.err = "nil"
     /\ Cardinality(OtherEpisodes(store, rtArgs.episodeID)) >= rtArgs.topK)
        => Len(rtResult.chunks) = rtArgs.topK

\* The call was made with arguments that pass the checks on entry.
ValidRetrieveArgs == rtArgs.episodeID # NoID /\ rtArgs.topK > 0

\* C25: the existence Query is the first collaborator call of
\* RetrieveContextForEpisode; when the store reports the identity as absent,
\* or the Query fails, the call fails and has invoked neither the embedder
\* nor Search.
C25_ExistenceCheckFirst ==
    rtPc = "returned" =>
        /\ rtLog # <<>> => rtLog[1] = "Query"
        /\ ValidRetrieveArgs => rtLog # <<>>
        /\ (ValidRetrieveArgs
              /\ \/ ~StoreQuery(store, {rtArgs.episodeID})[rtArgs.episodeID]
                 \/ rtResult.err = "failed to check episode existence")
             => /\ rtResult.err # "nil"
                /\ rtResult.chunks = <<>>
                /\ rtLog = <<"Query">>

\* A call for an identity that is not among the records of a non-empty store
\* has failed after the Query alone.
C25_Witness ==
    /\ rtPc = "returned"
    /\ ValidRetrieveArgs
    /\ Len(store) > 0
    /\ \A i \in 1..Len(store) : store[i].EpisodeID # rtArgs.episodeID
    /\ rtResult.err = "episode not found in vector store"
    /\ rtLog = <<"Query">>

---------------------------------------------------------------------------
(* internal/narrative: AssemblePrompt *)

\* Bound of the prompt model: the length of the context list.
MaxChunks == 3

\* The context chunks handed to AssemblePrompt.  Scores are in thousandths.
PromptChunks ==
    { [EpisodeID |-> EpisodeID(2), Text |-> <<"summary of", EpisodeID(2)>>, Score |-> 900],
      [EpisodeID |-> EpisodeID(3), Text |-> <<"summary of", EpisodeID(3)>>, Score |-> 900],
      [EpisodeID |-> EpisodeID(3), Text |-> <<"summary of", EpisodeID(3)>>, Score |-> 904],
      [EpisodeID |-> EpisodeID(4), Text |-> <<"summary of", EpisodeID(4)>>, Score |-> 1000] }

\* The length an artifact description is cut to (descriptions are sequences
\* of characters).
DescriptionLimit == 200

\* The target episodes of the prompt model.
PromptEpisodes ==
    { [ID |-> EpisodeID(1), Artifacts |-> <<>>,
       Commits |-> << [Hash |-> HashOf(1), Message |-> "Fix bug", AuthorName |-> "Bob",
                       CommittedAt |-> 30],
                      [Hash |-> HashOf(2), Message |-> "Add api", AuthorName |-> "Alice",
                       CommittedAt |-> 26],
                      [Hash |-> HashOf(3), Message |-> "Add tests", AuthorName |-> "Bob",
                       CommittedAt |-> 50] >>],
      [ID |-> EpisodeID(5), Commits |-> <<>>,
       Artifacts |-> << [Type |-> "issue", Number |-> 1, Title |-> "Crash",
                         Description |-> <<>>],
                        [Type |-> "pull_request", Number |-> 2, Title |-> "Fix crash",
                         Description |-> [i \in 1..DescriptionLimit + 1 |-> "x"]] >>] }

\* Position of an author name in the order of sort.Strings.
NameRank(name) == IF name = "Alice" THEN 1 ELSE 2

\* getTimeRange: earliest and latest CommittedAt; the zero time (0) twice
\* for no commits.
getTimeRange(cs) ==
    IF Len(cs) = 0 THEN <<0, 0>>
    ELSE << CHOOSE t \in {cs[i].CommittedAt : i \in 1..Len(cs)} :
                \A i \in 1..Len(cs) : t <= cs[i].CommittedAt,
            CHOOSE t \in {cs[i].CommittedAt : i \in 1..Len(cs)} :
                \A i \in 1..Len(cs) : t >= cs[i].CommittedAt >>

\* getUniqueAuthors: the distinct author names, sorted ascending.
getUniqueAuthors(cs) ==
    LET names == {cs[i].AuthorName : i \in 1..Len(cs)} \ {""}
    IN  CHOOSE s \in Orderings(names) :
            \A i \in 1..Len(s) - 1 : NameRank(s[i]) < NameRank(s[i + 1])

\* formatDateOrNA: "N/A" for the zero time, else the calendar day (instants
\* are in hours).
formatDateOrNA(t) == IF t = 0 THEN <<"N/A">> ELSE <<"day", t \div 24>>

\* The first seven characters of a commit hash.
ShortHash(hash) == IF Len(hash) > 7 THEN SubSeq(hash, 1, 7) ELSE hash

\* The lines of one artifact: its heading and, when it has a description, the
\* description cut to DescriptionLimit characters and marked with an ellipsis.
ArtifactLines(a) ==
    <<a.Type, a.Number, a.Title>>
        \o (IF a.Description = <<>> THEN <<>>
            ELSE IF Len(a.Description) > DescriptionLimit
                 THEN <<SubSeq(a.Description, 1, DescriptionLimit), "...">>
                 ELSE <<a.Description>>)

\* The verb %.2f on a score held in thousandths: the score in hundredths.
FormatScore(score) == (score + 5) \div 10

\* Mutant: the context is left in the order given.
SortByScoreSkipped(chunks) == chunks

\* sort.SliceStable with less = Score[i] > Score[j]: descending by score,
\* chunks of equal score in their input order (insertion of each chunk
\* behind the chunks that do not score less).
RECURSIVE SortByScore(_)
SortByScore(chunks) ==
    IF Len(chunks) <= 1 THEN chunks
    ELSE LET init == SortByScore(SubSeq(chunks, 1, Len(chunks) - 1))
             x == chunks[Len(chunks)]
             k == Cardinality({i \in 1..Len(init) : init[i].Score >= x.Score})
         IN  SubSeq(init, 1, k) \o <<x>> \o SubSeq(init, k + 1, Len(init))

\* assembleEpisodePrompt: the text of the prompt as the sequence of its parts.
assembleEpisodePrompt(ep, contextChunks) ==
    LET range == getTimeRange(ep.Commits)
        authors == getUniqueAuthors(ep.Commits)
    IN  <<"preamble", "# Episode to Summarize", <<"Episode ID", ep.ID>>,
          <<"Commits", Len(ep.Commits)>>,
          <<"Time Range", formatDateOrNA(range[1]), formatDateOrNA(range[2])>>,
          <<"Authors", IF Len(authors) = 0 THEN <<"N/A">> ELSE authors>>,
          <<"Commit Messages",
            IF Len(ep.Commits) = 0 THEN <<"(none)">>
            ELSE [i \in 1..Len(ep.Commits) |->
                    <<ShortHash(ep.Commits[i].Hash), ep.Commits[i].Message,
                      ep.Commits[i].AuthorName>>]>>,
          <<"Related Artifacts", Len(ep.Artifacts),
            IF Len(ep.Artifacts) = 0 THEN <<"(none)">>
            ELSE [i \in 1..Len(ep.Artifacts) |-> ArtifactLines(ep.Artifacts[i])]>>>>
        \o (IF Len(contextChunks) > 0
            THEN <<"# Related Development Context">>
                 \o [i \in 1..Len(contextChunks) |->
                       <<"Episode", contextChunks[i].EpisodeID,
                         "relevance", FormatScore(contextChunks[i].Score),
                         contextChunks[i].Text>>]
            ELSE <<>>)
        \o <<"# Task">>

\* AssemblePrompt: ErrMissingTargetEpisode for a nil episode, else the prompt
\* over a copy of the context sorted by descending score.
AssemblePrompt(targetEpisode, contextChunks) ==
    IF targetEpisode = <<>>
    THEN [prompt |-> <<>>, err |-> "target episode required for episode-level narrative"]
    ELSE [prompt |-> assembleEpisodePrompt(targetEpisode[1], SortByScore(contextChunks)),
          err |-> "nil"]

\* The context lists, and for each list its reorderings.
ChunkLists == UNION {[1..n -> PromptChunks] : n \in 0..MaxChunks}

Reorderings(chunks) ==
    {[i \in 1..Len(chunks) |-> chunks[p[i]]] : p \in Orderings(1..Len(chunks))}

InitPrompt ==
    /\ MilvusUnused
    /\ ConvertUnused
    /\ PipelineUnused
    /\ AnalyzeUnused
    /\ GroupUnused
    /\ ReviewUnused
    /\ HybridUnused
    /\ IndexUnused
    /\ RetrUnused
    /\ prPc = 0
    /\ prEpisode \in {<<>>} \cup {<<e>> : e \in PromptEpisodes}
    /\ prContextA \in ChunkLists
    /\ prContextB \in Reorderings(prContextA)
    /\ promptA = <<>>
    /\ promptB = <<>>

\* The first call, with the context in the order A.
AssembleFirst ==
    /\ prPc = 0
    /\ promptA' = AssemblePrompt(prEpisode, prContextA)
    /\ prPc' = 1
    /\ UNCHANGED <<prEpisode, prContextA, prContextB, promptB>>
    /\ UNCHANGED <<groupVars, indexVars, retrVars, reviewVars, hybridVars, analyzeVars, pipelineVars, convertVars, milvusVars>>

\* The second call, with the same chunks in the order B.
AssembleSecond ==
    /\ prPc = 1
    /\ promptB' = AssemblePrompt(prEpisode, prContextB)
    /\ prPc' = 2
    /\ UNCHANGED <<prEpisode, prContextA, prContextB, promptA>>
    /\ UNCHANGED <<groupVars, indexVars, retrVars, reviewVars, hybridVars, analyzeVars, pipelineVars, convertVars, milvusVars>>

NextPrompt == AssembleFirst \/ AssembleSecond

SpecPrompt == InitPrompt /\ [][NextPrompt]_vars

\* C10 as claimed: for a non-nil episode, two calls whose context lists hold
\* the same chunks in any two orders return the same prompt.
C10_OrderIndependence_AsClaimed ==
    (prPc = 2 /\ prEpisode # <<>>) => promptA = promptB

\* The chunks of each score appear in the same relative order in both lists.
SameTieOrder(a, b) ==
    \A sc \in {a[i].Score : i \in 1..Len(a)} :
        SelectSeq(a, LAMBDA ch : ch.Score = sc) = SelectSeq(b, LAMBDA ch : ch.Score = sc)

\* C10 amended: the two prompts are the same provided chunks of equal score
\* are in the same relative order in both lists (so always when the scores
\* are pairwise distinct, and always for the same list).
C10_OrderIndependence ==
    (prPc = 2 /\ prEpisode # <<>> /\ SameTieOrder(prContextA, prContextB))
        => promptA = promptB

\* Two calls on differently ordered lists of three chunks, two of which tie,
\* returned the same prompt with a context block.
C10_Witness ==
    /\ prPc = 2
    /\ prEpisode # <<>>
    /\ Len(prContextA) = 3
    /\ prContextA # prContextB
    /\ \E i, j \in 1..3 : i # j /\ prContextA[i].Score = prContextA[j].Score
                           /\ prContextA[i] # prContextA[j]
    /\ promptA.err = "nil"
    /\ promptA = promptB

---------------------------------------------------------------------------
(* internal/orchestrator: RAGPipeline.GenerateProjectNarrativeRAG *)

\* Bounds of the project-narrative model: the number of episodes supplied and
\* the number of references written in the question.
MaxHybridEpisodes == 2

MaxQueryRefs == 2

\* The artifact numbers that occur.
ArtifactNumbers == {1, 2}

\* A piece of the question that may be a reference: a word followed, after
\* optional white space and an optional #, by a number.
QueryRefs == {Ref("PR", 1), Ref("PR", 2), Ref("issue", 2), Ref("MR", 1)}

\* The questions: a text with its topic (which determines its embedding) and
\* the references written in it, in order.
Queries ==
    {<<"question", <<"topic", k>>, refs>> :
        k \in {2}, refs \in UNION {[1..n -> QueryRefs] : n \in 1..MaxQueryRefs}}

\* prRegex.FindAllStringSubmatch followed by strconv.Atoi: the numbers
\* captured by (?i)(?:pr|pull request|issue)\s*#?(\d+), in order of occurrence.
QueryMatches(query) ==
    LET hits == SelectSeq(query[3], LAMBDA r : ToLower(r.pre) \in {"pr", "pull request", "issue"})
    IN  [i \in 1..Len(hits) |-> hits[i].num]

\* The episodes supplied: E1, E2, ... in order, each with some artifacts.
HybridEpisodes ==
    UNION { {[k \in 1..n |->
                [ID |-> EpisodeID(k),
                 Commits |-> [i \in 1..k |-> HashOf(i)],
                 Artifacts |-> [i \in 1..Len(nums[k]) |-> [Number |-> nums[k][i]]]]] :
              nums \in [1..n -> {<<>>, <<1>>, <<2>>, <<1, 2>>}]} :
            n \in 0..MaxHybridEpisodes }

\* The stores a project narrative is generated against: one record for each
\* of some indexed episodes.
HybridStores ==
    {[i \in 1..Len(ids) |-> RecordOf(ids[i])] :
        ids \in {SelectSeq(<<EpisodeID(1), EpisodeID(2), EpisodeID(3)>>, LAMBDA id : id \in S) :
                    S \in SUBSET RetrIdents}}

\* generateEpisodeSummaryText, reduced to what tells the texts of two
\* episodes apart.
generateEpisodeSummaryText(ep) ==
    <<"Commits", Len(ep.Commits), "Artifacts",
      [i \in 1..Len(ep.Artifacts) |-> ep.Artifacts[i].Number]>>

\* The synthetic chunk of an episode: score 1.0.
SyntheticChunk(ep) ==
    [EpisodeID |-> ep.ID, Text |-> generateEpisodeSummaryText(ep), Score |-> 1000,
     CommitCount |-> Len(ep.Commits)]

\* Whether the episode has an artifact of the number.
HasArtifactNumber(ep, number) ==
    \E i \in 1..Len(ep.Artifacts) : ep.Artifacts[i].Number = number

\* Whether a chunk of the episode is in the context.
InContext(contextChunks, id) ==
    \E i \in 1..Len(contextChunks) : contextChunks[i].EpisodeID = id

\* Mutant: the synthetic chunk is put behind the context.
AugmentForAppends(contextChunks, eps, number) ==
    LET holders == {k \in 1..Len(eps) : HasArtifactNumber(eps[k], number)}
    IN  IF holders = {} THEN contextChunks
        ELSE LET ep == eps[CHOOSE k \in holders : \A m \in holders : k <= m]
             IN  IF InContext(contextChunks, ep.ID) THEN contextChunks
                 ELSE contextChunks \o <<SyntheticChunk(ep)>>

\* rag.go 230-270, one match: the first episode that has an artifact of the
\* number ends the search; its synthetic chunk is prepended unless a chunk of
\* that episode is in the context already.
AugmentFor(contextChunks, eps, number) ==
    LET holders == {k \in 1..Len(eps) : HasArtifactNumber(eps[k], number)}
    IN  IF holders = {} THEN contextChunks
        ELSE LET ep == eps[CHOOSE k \in holders : \A m \in holders : k <= m]
             IN  IF InContext(contextChunks, ep.ID) THEN contextChunks
                 ELSE <<SyntheticChunk(ep)>> \o contextChunks

\* rag.go 227-273: the matches are handled in order, each on the context the
\* earlier ones left.
RECURSIVE HybridSearch(_, _, _)
HybridSearch(matches, eps, contextChunks) ==
    IF Len(matches) = 0 THEN contextChunks
    ELSE HybridSearch(Tail(matches), eps, AugmentFor(contextChunks, eps, Head(matches)))

\* Mutant: the context is handed on whole.
TruncateContextNever(contextChunks, maxContextSize) == contextChunks

\* rag.go 275-279 and 175-179: the first MaxContextSize chunks.
TruncateContext(contextChunks, maxContextSize) ==
    IF Len(contextChunks) > maxContextSize
    THEN SubSeq(contextChunks, 1, maxContextSize)
    ELSE contextChunks

\* The slice expression contextChunks[:MaxContextSize] panics (slice bounds
\* out of range) when it is evaluated with a negative MaxContextSize.
TruncatePanics(contextChunks, maxContextSize) ==
    Len(contextChunks) > maxContextSize /\ maxContextSize < 0

\* What RetrieveContextForEpisode can return when no collaborator call fails:
\* no list when the episode is not in the store, else the chunks of a
\* similarity search for topK + 1 without those of the episode itself.
RetrieveOutcomes(st, episodeID, topK) ==
    IF ~StoreQuery(st, {episodeID})[episodeID] THEN {}
    ELSE UNION { {FilterSelf(chunks, episodeID, topK) :
                    chunks \in StoreSearch(st, Embed(<<episodeChunks[1].Text>>)[1].Embedding,
                                           topK + 1, {})} :
                 episodeChunks \in {c \in StoreSearch(st, NilVector, 1, {episodeID}) :
                                       Len(c) > 0} }

\* The values of MaxContextSize: negative, the zero value, and sizes below
\* and above the length of the contexts that occur.
ContextSizes == {-1, 0, 1, 3}

InitHybrid ==
    /\ MilvusUnused
    /\ ConvertUnused
    /\ PipelineUnused
    /\ AnalyzeUnused
    /\ GroupUnused
    /\ RetrUnused
    /\ PromptUnused
    /\ ReviewUnused
    /\ ixPc = "unused"
    /\ ixEpisodes = <<>>
    /\ ixOpts = [BatchSize |-> 10, ForceReindex |-> FALSE, SkipExisting |-> TRUE]
    /\ episodesToIndex = <<>>
    /\ batchStart = 0
    /\ embeddingRecords = <<>>
    /\ ixResult = "pending"
    /\ store \in HybridStores
    /\ unflushed = 0
    /\ ixCalls = 0
    /\ insertCount = [id \in EpisodeIdents |-> 0]
    /\ ixHistory = NoHistory
    /\ ixLog = <<>>
    /\ hyPc = "call"
    /\ hyQuery \in Queries
    /\ hyEpisodes \in HybridEpisodes
    /\ hyConfig \in [TopK : {1, 2}, MaxContextSize : ContextSizes]
    /\ hyRetrieved = <<>>
    /\ hyAugmented = <<>>
    /\ hyContext = <<>>
    /\ hyResult = "pending"

\* GenerateProjectNarrativeRAG.  The retrieval and the generator are
\* collaborator calls, each of which may fail.
GenerateProjectNarrativeRAG ==
    /\ hyPc = "call"
    /\ \E failAt \in {"none", "retrieval", "generation"} :
         IF failAt = "retrieval"
         THEN /\ hyResult' = "retrieval failed"
              /\ UNCHANGED <<hyRetrieved, hyAugmented, hyContext>>
         ELSE \E chunks \in StoreSearch(store, Embed(<<hyQuery>>)[1].Embedding,
                                        hyConfig.TopK, {}) :
                LET augmented == HybridSearch(QueryMatches(hyQuery), hyEpisodes, chunks)
                IN  /\ hyRetrieved' = chunks
                    /\ hyAugmented' = augmented
                    /\ IF TruncatePanics(augmented, hyConfig.MaxContextSize)
                       THEN /\ hyContext' = <<>>
                            /\ hyResult' = "panic"
                       ELSE /\ hyContext' = TruncateContext(augmented, hyConfig.MaxContextSize)
                            /\ hyResult' = IF failAt = "generation"
                                           THEN "narrative generation failed" ELSE "nil"
    /\ hyPc' = "done"
    /\ UNCHANGED <<hyQuery, hyEpisodes, hyConfig>>
    /\ UNCHANGED <<groupVars, indexVars, retrVars, promptVars, reviewVars, analyzeVars, pipelineVars, convertVars, milvusVars>>

\* GenerateEpisodeNarrativeRAG (rag.go 152-198) for a nil episode or one of
\* the supplied episodes.  The retrieval and the generator are collaborator
\* calls, each of which may fail; the retrieval also fails when the episode is
\* not in the store.
GenerateEpisodeNarrativeRAG ==
    /\ hyPc = "call"
    /\ \E k \in 0..Len(hyEpisodes), failAt \in {"none", "retrieval", "generation"} :
         IF k = 0
         THEN /\ hyResult' = "episode cannot be nil"
              /\ UNCHANGED <<hyRetrieved, hyAugmented, hyContext>>
         ELSE LET outcomes == RetrieveOutcomes(store, hyEpisodes[k].ID, hyConfig.TopK)
              IN  IF failAt = "retrieval" \/ outcomes = {}
                  THEN /\ hyResult' = "retrieval failed"
                       /\ UNCHANGED <<hyRetrieved, hyAugmented, hyContext>>
                  ELSE \E chunks \in outcomes :
                         /\ hyRetrieved' = chunks
                         /\ hyAugmented' = chunks
                         /\ IF TruncatePanics(chunks, hyConfig.MaxContextSize)
                            THEN /\ hyContext' = <<>>
                                 /\ hyResult' = "panic"
                            ELSE /\ hyContext' = TruncateContext(chunks, hyConfig.MaxContextSize)
                                 /\ hyResult' = IF failAt = "generation"
                                                THEN "narrative generation failed" ELSE "nil"
    /\ hyPc' = "episode done"
    /\ UNCHANGED <<hyQuery, hyEpisodes, hyConfig>>
    /\ UNCHANGED <<groupVars, indexVars, retrVars, promptVars, reviewVars, analyzeVars, pipelineVars, convertVars, milvusVars>>

NextHybrid == GenerateProjectNarrativeRAG \/ GenerateEpisodeNarrativeRAG

SpecHybrid == InitHybrid /\ [][NextHybrid]_vars

\* The context was handed to project-prompt assembly.
Assembled == hyPc = "done" /\ hyResult \in {"nil", "narrative generation failed"}

\* A chunk of the episode with score 1.0 is in the context, ahead of every
\* chunk that was retrieved.
SyntheticAhead(contextChunks, id) ==
    \E i \in 1..Len(contextChunks) :
        /\ contextChunks[i].EpisodeID = id
        /\ contextChunks[i].Score = 1000
        /\ \A j \in 1..Len(contextChunks) :
              InContext(hyRetrieved, contextChunks[j].EpisodeID) => i < j

\* C12 as claimed: for every captured number and every supplied episode that
\* has an artifact of that number and no chunk in the retrieved context, the
\* context handed to prompt assembly holds a chunk of that episode with score
\* 1.0 ahead of the retrieved chunks.
C12_HybridAugmentation_AsClaimed ==
    Assembled =>
        \A n \in Range(QueryMatches(hyQuery)) : \A k \in 1..Len(hyEpisodes) :
            (HasArtifactNumber(hyEpisodes[k], n) /\ ~InContext(hyRetrieved, hyEpisodes[k].ID))
                => SyntheticAhead(hyContext, hyEpisodes[k].ID)

\* The first supplied episode that has an artifact of the number.
IsFirstHolder(k, n) ==
    /\ HasArtifactNumber(hyEpisodes[k], n)
    /\ \A m \in 1..k - 1 : ~HasArtifactNumber(hyEpisodes[m], n)

\* C12 amended: the same for the first supplied episode that has an artifact
\* of the number, in the context before the truncation to MaxContextSize, and
\* in the context handed to prompt assembly when MaxContextSize is at least
\* the number of captured numbers.
C12_HybridAugmentation ==
    Assembled =>
        \A n \in Range(QueryMatches(hyQuery)) : \A k \in 1..Len(hyEpisodes) :
            (IsFirstHolder(k, n) /\ ~InContext(hyRetrieved, hyEpisodes[k].ID))
                => /\ SyntheticAhead(hyAugmented, hyEpisodes[k].ID)
                   /\ hyConfig.MaxContextSize >= Len(QueryMatches(hyQuery))
                        => SyntheticAhead(hyContext, hyEpisodes[k].ID)

\* A narrative was generated for a question with two references; the
\* retrieval found one episode, the two referenced episodes were not among
\* the retrieved ones, and both were put ahead of it with score 1.0.
C12_Witness ==
    /\ hyPc = "done"
    /\ hyResult = "nil"
    /\ Len(hyRetrieved) = 1
    /\ Len(hyContext) = 3
    /\ hyContext[3] = hyRetrieved[1]
    /\ hyContext[1].Score = 1000 /\ hyContext[2].Score = 1000
    /\ hyContext[1].EpisodeID # hyContext[2].EpisodeID
    /\ ~InContext(hyRetrieved, hyContext[1].EpisodeID)
    /\ ~InContext(hyRetrieved, hyContext[2].EpisodeID)

\* The context of a call that got as far as prompt assembly.
HandedToAssembly ==
    /\ hyPc \in {"done", "episode done"}
    /\ hyResult \in {"nil", "narrative generation failed"}

\* C24: the context handed to prompt assembly by GenerateProjectNarrativeRAG
\* and by GenerateEpisodeNarrativeRAG holds at most MaxContextSize chunks and
\* is a leading prefix of the list that existed before the truncation.
C24_ContextBound ==
    HandedToAssembly =>
        /\ Len(hyContext) <= hyConfig.MaxContextSize
        /\ hyContext = SubSeq(hyAugmented, 1, Len(hyContext))

\* A project narrative whose context, a synthetic chunk ahead of two retrieved
\* ones, was cut to MaxContextSize = 1.
C24_Witness ==
    /\ hyPc = "done"
    /\ hyResult = "nil"
    /\ hyConfig.MaxContextSize = 1
    /\ Len(hyRetrieved) = 2
    /\ Len(hyAugmented) = 3
    /\ hyContext = <<hyAugmented[1]>>
    /\ hyContext[1].Score = 1000

\* An episode narrative whose two retrieved chunks were cut to one.
C24_WitnessEpisode ==
    /\ hyPc = "episode done"
    /\ hyResult = "nil"
    /\ hyConfig.MaxContextSize = 1
    /\ Len(hyAugmented) = 2
    /\ hyContext = <<hyAugmented[1]>>

\* A call with a negative MaxContextSize ends in a panic.
C24_WitnessPanic ==
    /\ hyPc \in {"done", "episode done"}
    /\ hyResult = "panic"
    /\ hyConfig.MaxContextSize < 0

---------------------------------------------------------------------------
(* internal/adapter: determineReviewState *)

\* Bound of the review model: the length of the review list.
MaxReviews == 3

\* The reviews of the model: reviewer, raw GitHub state, submission instant.
ReviewStates == {"APPROVED", "CHANGES_REQUESTED", "COMMENTED", "DISMISSED", "PENDING"}

Reviews == [Author : {"alice", "bob"}, State : ReviewStates, SubmittedAt : {1, 2}]

ReviewLists == UNION {[1..n -> Reviews] : n \in 0..MaxReviews}

\* normalizeReviewState: the four known states in lower case, anything else
\* verbatim.
normalizeReviewState(state) ==
    CASE state = "APPROVED" -> "approved"
      [] state = "CHANGES_REQUESTED" -> "changes_requested"
      [] state = "COMMENTED" -> "commented"
      [] state = "DISMISSED" -> "dismissed"
      [] OTHER -> state

\* The map reviewerStates after the first loop: each reviewer's entry is
\* written by every review of theirs in list order, so the last one stays.
reviewerStates(reviews) ==
    [a \in {reviews[i].Author : i \in 1..Len(reviews)} |->
        LET last == CHOOSE i \in 1..Len(reviews) :
                        /\ reviews[i].Author = a
                        /\ \A j \in i + 1..Len(reviews) : reviews[j].Author # a
        IN  normalizeReviewState(reviews[last].State)]

\* The values of a map.
Image(f) == {f[x] : x \in DOMAIN f}

\* The priority among the collapsed states: changes_requested, then
\* approved, then commented.
Aggregate(states) ==
    IF "changes_requested" \in states THEN "changes_requested"
    ELSE IF "approved" \in states THEN "approved"
    ELSE "commented"

\* determineReviewState.
determineReviewState(reviews) ==
    IF Len(reviews) = 0 THEN ""
    ELSE Aggregate(Image(reviewerStates(reviews)))

InitReview ==
    /\ MilvusUnused
    /\ ConvertUnused
    /\ PipelineUnused
    /\ AnalyzeUnused
    /\ GroupUnused
    /\ HybridUnused
    /\ IndexUnused
    /\ RetrUnused
    /\ PromptUnused
    /\ rvPc = "call"
    /\ rvReviews \in ReviewLists
    /\ rvResult = ""

DetermineReviewState ==
    /\ rvPc = "call"
    /\ rvResult' = determineReviewState(rvReviews)
    /\ rvPc' = "done"
    /\ UNCHANGED rvReviews
    /\ UNCHANGED <<groupVars, indexVars, retrVars, promptVars, hybridVars, analyzeVars, pipelineVars, convertVars, milvusVars>>

NextReview == DetermineReviewState

SpecReview == InitReview /\ [][NextReview]_vars

\* The normalized states a reviewer's most recent reviews carry: the reviews
\* of that reviewer with the greatest submission instant.
LatestStatesOf(reviews, a) ==
    {normalizeReviewState(reviews[i].State) : i \in
        {i \in 1..Len(reviews) :
            /\ reviews[i].Author = a
            /\ \A j \in 1..Len(reviews) :
                  reviews[j].Author = a => reviews[j].SubmittedAt <= reviews[i].SubmittedAt}}

\* The aggregates that collapsing each reviewer to a most recent review allows
\* (more than one only if a reviewer has two reviews of the same instant).
AggregatesBySubmission(reviews) ==
    LET authors == {reviews[i].Author : i \in 1..Len(reviews)}
    IN  {Aggregate(Image(pick)) :
            pick \in {f \in [authors -> {normalizeReviewState(st) : st \in ReviewStates}] :
                        \A a \in authors : f[a] \in LatestStatesOf(reviews, a)}}

---------------------------------------------------------------------------
(* GroupIntoEpisodes as a state machine *)

\* The inputs: up to MaxCommits commits in any order of instants, one of the
\* artifact lists, one of the configurations.
CommitLists ==
    UNION { {[i \in 1..n |-> MkCommit(i, ts[i], bs[i])] :
                ts \in [1..n -> Times], bs \in [1..n -> CommitBodies]} : n \in 0..MaxCommits }

InitGroup ==
    /\ MilvusUnused
    /\ ConvertUnused
    /\ PipelineUnused
    /\ AnalyzeUnused
    /\ IndexUnused
    /\ RetrUnused
    /\ PromptUnused
    /\ ReviewUnused
    /\ HybridUnused
    /\ pc = "call"
    /\ raCommits \in CommitLists
    /\ raArtifacts \in ArtifactLists
    /\ config \in ScoreConfigs
    /\ commits = <<>>
    /\ idx = 0
    /\ currentEpisode = <<>>
    /\ episodes = <<>>
    /\ firstRun = <<>>

\* grouping.go 49-51: no commits, return the empty list.
GroupEmpty ==
    /\ pc = "call"
    /\ Len(raCommits) = 0
    /\ pc' = "done"
    /\ UNCHANGED <<raCommits, raArtifacts, config, commits, idx, currentEpisode, episodes,
                   firstRun>>
    /\ UNCHANGED <<indexVars, retrVars, promptVars, reviewVars, hybridVars, analyzeVars, pipelineVars, convertVars, milvusVars>>

\* grouping.go 53-62: copy and sort the commits, start the loop.
GroupSort ==
    /\ pc = "call"
    /\ Len(raCommits) # 0
    /\ commits' \in sortCommitsByTime(raCommits)
    /\ idx' = 0
    /\ currentEpisode' = <<>>
    /\ episodes' = <<>>
    /\ pc' = "loop"
    /\ UNCHANGED <<raCommits, raArtifacts, config, firstRun>>
    /\ UNCHANGED <<indexVars, retrVars, promptVars, reviewVars, hybridVars, analyzeVars, pipelineVars, convertVars, milvusVars>>

\* grouping.go 64-102: one iteration of the loop over the sorted commits.
LoopIteration ==
    /\ pc = "loop"
    /\ idx < Len(commits)
    /\ LET commit == commits[idx + 1]
           artifactRefMap == buildArtifactReferenceMap(raArtifacts)
       IN  \E order \in Orderings(extractArtifactReferences(commit.Message)) :
             LET started == addReferencedArtifacts(NewEpisode(commit), commit,
                                                   artifactRefMap, raArtifacts, order)
                 cur == currentEpisode[1]
                 similarity == calculateEpisodeSimilarity(cur, commit, config)
                 fits == SimilarityClears(similarity, config.MinSimilarityScore)
                 cur1 == IF currentEpisode = <<>> THEN started
                         ELSE IF fits
                         THEN addReferencedArtifacts(
                                  [cur EXCEPT !.Commits = Append(cur.Commits, commit)],
                                  commit, artifactRefMap, raArtifacts, order)
                         ELSE started
                 eps1 == IF currentEpisode # <<>> /\ ~fits
                         THEN FinalizeCurrent(episodes, cur, config)
                         ELSE episodes
                 last == idx = Len(commits) - 1
                 eps2 == IF last THEN FlushTrailing(eps1, cur1, config) ELSE eps1
                 cur2 == IF last /\ Len(eps2) > Len(eps1)
                         THEN [cur1 EXCEPT !.ID = EpisodeID(Len(eps1) + 1)]
                         ELSE cur1
             IN  /\ currentEpisode' = <<cur2>>
                 /\ episodes' = eps2
    /\ idx' = idx + 1
    /\ pc' = "loop"
    /\ UNCHANGED <<raCommits, raArtifacts, config, commits, firstRun>>
    /\ UNCHANGED <<indexVars, retrVars, promptVars, reviewVars, hybridVars, analyzeVars, pipelineVars, convertVars, milvusVars>>

\* grouping.go 104: return episodes.
GroupReturn ==
    /\ pc = "loop"
    /\ idx = Len(commits)
    /\ pc' = "done"
    /\ UNCHANGED <<raCommits, raArtifacts, config, commits, idx, currentEpisode, episodes,
                   firstRun>>
    /\ UNCHANGED <<indexVars, retrVars, promptVars, reviewVars, hybridVars, analyzeVars, pipelineVars, convertVars, milvusVars>>

NextGroup == GroupEmpty \/ GroupSort \/ LoopIteration \/ GroupReturn

Spec == InitGroup /\ [][NextGroup]_vars

\* The same calls with the configurations where the time gap decides.
InitGap ==
    /\ MilvusUnused
    /\ ConvertUnused
    /\ PipelineUnused
    /\ AnalyzeUnused
    /\ IndexUnused
    /\ RetrUnused
    /\ PromptUnused
    /\ ReviewUnused
    /\ HybridUnused
    /\ pc = "call"
    /\ raCommits \in CommitLists
    /\ raArtifacts \in ArtifactLists
    /\ config \in GapConfigs
    /\ commits = <<>>
    /\ idx = 0
    /\ currentEpisode = <<>>
    /\ episodes = <<>>
    /\ firstRun = <<>>

SpecGap == InitGap /\ [][NextGroup]_vars

---------------------------------------------------------------------------
(* Properties of GroupIntoEpisodes *)

\* The commit lists of a list of episodes.
CommitsOf(eps) == [k \in 1..Len(eps) |-> eps[k].Commits]

\* The number of commits that are in some emitted episode.
RECURSIVE EmittedCount(_)
EmittedCount(eps) == IF eps = <<>> THEN 0 ELSE Len(Head(eps).Commits) + EmittedCount(Tail(eps))

\* C1: every episode in the result has at least config.MinCommits commits,
\* whether it was finalized in the middle of the stream or flushed at the end.
C1_MinCommitsFilter ==
    \A k \in 1..Len(episodes) : Len(episodes[k].Commits) >= config.MinCommits

\* A run with MinCommits = 2 in which a candidate was dropped in the middle of
\* the stream and the trailing episode was emitted.
C1_Witness ==
    /\ pc = "done"
    /\ config.MinCommits = 2
    /\ Len(commits) = 3
    /\ Len(episodes) = 1
    /\ episodes[1].Commits = <<commits[2], commits[3]>>

\* The earliest CommittedAt of a non-empty commit list.
MinTime(cs) == CHOOSE t \in {cs[i].CommittedAt : i \in 1..Len(cs)} :
                   \A i \in 1..Len(cs) : t <= cs[i].CommittedAt

\* C2: in the result the commits of every episode are non-decreasing by
\* CommittedAt, and the earliest instants of the episodes are non-decreasing
\* in emission order, whatever the input order.
C2_EpisodeOrdering ==
    pc = "done" =>
        /\ \A k \in 1..Len(episodes) : IsSortedByTime(episodes[k].Commits)
        /\ \A i, j \in 1..Len(episodes) :
               i < j => MinTime(episodes[i].Commits) <= MinTime(episodes[j].Commits)

\* A finished run whose input was not in chronological order and that emitted
\* two episodes, one of them with commits at different instants.
C2_Witness ==
    /\ pc = "done"
    /\ ~IsSortedByTime(raCommits)
    /\ Len(episodes) = 2
    /\ Len(episodes[1].Commits) = 2
    /\ episodes[1].Commits[1].CommittedAt < episodes[1].Commits[2].CommittedAt

\* C3: the loop is the idle/building machine of the specification.  The first
\* commit starts the current episode; a later commit is appended iff its
\* similarity is >= MinSimilarityScore; otherwise the current episode is
\* finalized (emitted iff it has >= MinCommits commits) and the commit starts
\* a new one; after the last commit the current episode is finalized by the
\* same rule.
C3_Step ==
    (pc = "loop" /\ idx < Len(commits)) =>
        LET c == commits[idx + 1]
            idle == currentEpisode = <<>>
            curCommits == IF idle THEN <<>> ELSE currentEpisode[1].Commits
            sim == IF idle THEN <<0, 1>>
                   ELSE calculateEpisodeSimilarity(currentEpisode[1], c, config)
            atLeast == sim[2] # 0 /\ sim[1] >= config.MinSimilarityScore * sim[2]
            appended == ~idle /\ atLeast
            newCur == IF appended THEN Append(curCommits, c) ELSE <<c>>
            mid == IF ~idle /\ ~atLeast /\ Len(curCommits) >= config.MinCommits
                   THEN Append(CommitsOf(episodes), curCommits)
                   ELSE CommitsOf(episodes)
            end == IF idx + 1 = Len(commits) /\ Len(newCur) >= config.MinCommits
                   THEN Append(mid, newCur)
                   ELSE mid
        IN  /\ idle <=> idx = 0
            /\ currentEpisode' # <<>>
            /\ currentEpisode'[1].Commits = newCur
            /\ CommitsOf(episodes') = end

C3_StateMachine == [][C3_Step]_vars

\* A finished run in which a one-commit candidate was discarded, a commit was
\* appended to its successor, and the successor was flushed at end of input.
C3_Witness ==
    /\ pc = "done"
    /\ config.MinCommits = 2
    /\ Len(commits) = 3
    /\ CommitsOf(episodes) = << <<commits[2], commits[3]>> >>
    /\ commits[1].Email # commits[2].Email

\* Every weight but the time weight is zero.
OnlyTimeWeight(cfg) ==
    /\ cfg.AuthorWeight = 0
    /\ cfg.FileWeight = 0
    /\ cfg.MessageWeight = 0
    /\ cfg.ArtifactWeight = 0

\* The next commit lies strictly more than MaxTimeGap after the last commit
\* of the current episode.
GapExceeded ==
    /\ pc = "loop"
    /\ idx < Len(commits)
    /\ currentEpisode # <<>>
    /\ LET cur == currentEpisode[1]
       IN  Abs(commits[idx + 1].CommittedAt - cur.Commits[Len(cur.Commits)].CommittedAt)
               > config.MaxTimeGap

\* The iteration did not append: the commit is the only commit of the new
\* current episode.
NotAppended == currentEpisode'[1].Commits = <<commits[idx + 1]>>

\* C6 as claimed: with only the time weight non-zero, a commit whose gap to
\* the last commit strictly exceeds MaxTimeGap is not appended.
C6_TimeGapCutoff_AsClaimed ==
    [][(OnlyTimeWeight(config) /\ GapExceeded) => NotAppended]_vars

\* C6 amended: the same, provided MinSimilarityScore is positive.
C6_TimeGapCutoff ==
    [][(OnlyTimeWeight(config) /\ config.MinSimilarityScore > 0 /\ GapExceeded)
          => NotAppended]_vars

\* With only the time weight non-zero and a positive threshold, the commit
\* just processed lies more than MaxTimeGap after its predecessor and started
\* a new episode.
C6_Witness ==
    /\ pc = "loop"
    /\ idx >= 2
    /\ OnlyTimeWeight(config)
    /\ config.TimeWeight > 0
    /\ config.MinSimilarityScore > 0
    /\ commits[idx].CommittedAt - commits[idx - 1].CommittedAt > config.MaxTimeGap
    /\ currentEpisode[1].Commits = <<commits[idx]>>

\* The identities of a list of artifacts are pairwise distinct.
DistinctIDs(arts) == \A i, j \in 1..Len(arts) : i # j => arts[i].ID # arts[j].ID

\* C7: in every episode, emitted or under construction, the artifact
\* identities are pairwise distinct.
C7_ArtifactUniqueness ==
    /\ \A k \in 1..Len(episodes) : DistinctIDs(episodes[k].Artifacts)
    /\ \A k \in 1..Len(currentEpisode) : DistinctIDs(currentEpisode[k].Artifacts)

\* An emitted episode holds artifact issue-1001 once although two of its
\* commits reference "#1", one of them also as "PR-1", and a discussion of the
\* artifact carries the hash of one of its commits.
C7_Witness ==
    /\ pc = "done"
    /\ \E k \in 1..Len(episodes) :
         LET e == episodes[k]
         IN  /\ Ref("issue-", 1001) \in ArtifactIDs(e.Artifacts)
             /\ \E i, j \in 1..Len(e.Commits) :
                  /\ i # j
                  /\ Ref("#", 1) \in Range(e.Commits[i].Message)
                  /\ {Ref("#", 1), Ref("PR-", 1)} \subseteq Range(e.Commits[j].Message)
                  /\ e.Commits[j].Hash = HashOf(2)

\* C8: the k-th episode of the result has identity "E{k}".
C8_EpisodeIdentities ==
    \A k \in 1..Len(episodes) : episodes[k].ID = EpisodeID(k)

\* A finished run that discarded its first candidate and emitted the
\* episode that followed it.
C8_Witness ==
    /\ pc = "done"
    /\ Len(episodes) = 1
    /\ episodes[1].Commits[1] # commits[1]
    /\ episodes[1].ID = EpisodeID(1)

\* The position of a commit in the input list.
InputPosition(c) == CHOOSE i \in 1..Len(raCommits) : raCommits[i] = c

\* C9: commits with equal CommittedAt keep their relative input order in the
\* sequence the loop processes.
C9_StableTies ==
    \A i, j \in 1..Len(commits) :
        (i < j /\ commits[i].CommittedAt = commits[j].CommittedAt)
            => InputPosition(commits[i]) < InputPosition(commits[j])

---------------------------------------------------------------------------
(* Artifact linking by reference in GroupIntoEpisodes *)

\* The longest commit list of the linking runs.
MaxLinkCommits == 2

\* Pieces of message text that match one of the four patterns of
\* extractArtifactReferences, in the spellings the patterns accept: the dash
\* is optional and the letters match in either case.
LinkRefs ==
    { Ref("#", 1), Ref("pr-", 1), Ref("PR", 2), Ref("Issue-", 2), Ref("MR-", 1),
      Ref("issue-", 2) }

\* Commit bodies whose full message carries one reference, or two.
LinkBodies ==
    { [Email |-> "alice", Diffs |-> <<[FilePath |-> "main.go", OldPath |-> ""]>>,
       Subject |-> <<"Fix", "the", "bug">>, Message |-> <<r>>] : r \in LinkRefs }
    \cup
    { [Email |-> "bob", Diffs |-> <<>>, Subject |-> <<"Add", "api">>,
       Message |-> <<Ref("#", 1), Ref("PR", 2)>>] }

LinkTimes == {0, 1}

LinkCommitLists ==
    UNION { {[i \in 1..n |-> MkCommit(i, ts[i], bs[i])] :
                ts \in [1..n -> LinkTimes], bs \in [1..n -> LinkBodies]} : n \in 0..MaxLinkCommits }

\* GroupIntoEpisodes called on commits whose messages carry the references above.
InitLink ==
    /\ MilvusUnused
    /\ ConvertUnused
    /\ PipelineUnused
    /\ AnalyzeUnused
    /\ IndexUnused
    /\ RetrUnused
    /\ PromptUnused
    /\ ReviewUnused
    /\ HybridUnused
    /\ pc = "call"
    /\ raCommits \in LinkCommitLists
    /\ raArtifacts \in ArtifactLists
    /\ config \in GroupingConfigs
    /\ commits = <<>>
    /\ idx = 0
    /\ currentEpisode = <<>>
    /\ episodes = <<>>
    /\ firstRun = <<>>

SpecLink == InitLink /\ [][NextGroup]_vars

\* The artifacts of the activity that carry the number of a reference.
ArtifactsNumbered(n) ==
    {raArtifacts[i] : i \in {j \in 1..Len(raArtifacts) : raArtifacts[j].Number = n}}

\* C20: when the call has returned, every returned episode holds, for every
\* commit in it and every piece of the commit's full message that matches one
\* of the patterns #n, PR-?n, issue-?n, MR-?n (letter case ignored), every
\* artifact of the activity whose number is n.
C20_LinkByReference ==
    pc = "done" =>
        \A e \in 1..Len(episodes) :
            \A c \in 1..Len(episodes[e].Commits) :
                \A r \in extractArtifactReferences(episodes[e].Commits[c].Message) :
                    \A a \in ArtifactsNumbered(r.num) :
                        a.ID \in ArtifactIDs(episodes[e].Artifacts)

\* The same statement for the references spelled exactly as a key of the
\* reference map ("#n", "PR-n", "issue-n", "MR-n").
C20_LinkByExactReference ==
    pc = "done" =>
        \A e \in 1..Len(episodes) :
            \A c \in 1..Len(episodes[e].Commits) :
                \A r \in extractArtifactReferences(episodes[e].Commits[c].Message) :
                    r.pre \in {"#", "PR-", "issue-", "MR-"} =>
                        \A a \in ArtifactsNumbered(r.num) :
                            a.ID \in ArtifactIDs(episodes[e].Artifacts)

\* A returned episode with a commit whose message names artifact 2 as
\* "issue-2", and the artifact is attached.
C20_ExactWitness ==
    /\ pc = "done"
    /\ \E e \in 1..Len(episodes) :
         /\ \E c \in 1..Len(episodes[e].Commits) :
                Ref("issue-", 2) \in Range(episodes[e].Commits[c].Message)
         /\ \E a \in ArtifactsNumbered(2) : a.ID \in ArtifactIDs(episodes[e].Artifacts)

---------------------------------------------------------------------------
(* Two calls of GroupIntoEpisodes on the same input *)

\* The longest commit list of the repeated runs.
MaxRerunCommits == 2

\* Commit bodies for the repeated runs: messages that name no artifact, one
\* artifact, the same artifact twice, and two artifacts of the activity.
RerunBodies ==
    { [Email |-> "alice", Diffs |-> <<[FilePath |-> "main.go", OldPath |-> ""]>>,
       Subject |-> <<"Fix", "the", "bug">>, Message |-> m] :
         m \in { <<>>, <<Ref("#", 1)>>, <<Ref("#", 1), Ref("PR-", 1)>>,
                 <<Ref("#", 1), Ref("issue-", 2)>>, <<Ref("MR-", 2), Ref("issue-", 1)>> } }

\* The commits carry pairwise different instants, so sortCommitsByTime has one
\* outcome and the two calls process the commits in the same order.
RerunTimes == {0, 1, 3}

RerunCommitLists ==
    UNION { {[i \in 1..n |-> MkCommit(i, ts[i], bs[i])] :
                ts \in {f \in [1..n -> RerunTimes] : \A i, j \in 1..n : i # j => f[i] # f[j]},
                bs \in [1..n -> RerunBodies]} : n \in 0..MaxRerunCommits }

InitRerun ==
    /\ MilvusUnused
    /\ ConvertUnused
    /\ PipelineUnused
    /\ AnalyzeUnused
    /\ IndexUnused
    /\ RetrUnused
    /\ PromptUnused
    /\ ReviewUnused
    /\ HybridUnused
    /\ pc = "call"
    /\ raCommits \in RerunCommitLists
    /\ raArtifacts \in ArtifactLists
    /\ config \in GroupingConfigs
    /\ commits = <<>>
    /\ idx = 0
    /\ currentEpisode = <<>>
    /\ episodes = <<>>
    /\ firstRun = <<>>

\* The caller keeps the returned list and calls GroupIntoEpisodes again with
\* the same activity and configuration.
GroupAgain ==
    /\ pc = "done"
    /\ firstRun = <<>>
    /\ firstRun' = <<episodes>>
    /\ pc' = "call"
    /\ commits' = <<>>
    /\ idx' = 0
    /\ currentEpisode' = <<>>
    /\ episodes' = <<>>
    /\ UNCHANGED <<raCommits, raArtifacts, config>>
    /\ UNCHANGED <<indexVars, retrVars, promptVars, reviewVars, hybridVars, analyzeVars, pipelineVars, convertVars, milvusVars>>

NextRerun == GroupEmpty \/ GroupSort \/ LoopIteration \/ GroupReturn \/ GroupAgain

SpecRerun == InitRerun /\ [][NextRerun]_vars

\* C21: when the second of two calls on the same commits, artifacts and
\* configuration has returned, its episode list equals the list the first
\* call returned, the order of every artifact list included.
C21_Deterministic ==
    (pc = "done" /\ firstRun # <<>>) => episodes = firstRun[1]

\* The artifact lists of a list of episodes as sets of identities.
ArtifactSets(eps) == [e \in 1..Len(eps) |-> ArtifactIDs(eps[e].Artifacts)]

\* The two results without their artifact lists.
WithoutArtifacts(eps) == [e \in 1..Len(eps) |-> [eps[e] EXCEPT !.Artifacts = <<>>]]

\* What the two calls do agree on: the episodes, their commits and the set of
\* artifacts of each episode.
C21_DeterministicUpToArtifactOrder ==
    (pc = "done" /\ firstRun # <<>>) =>
        /\ WithoutArtifacts(episodes) = WithoutArtifacts(firstRun[1])
        /\ ArtifactSets(episodes) = ArtifactSets(firstRun[1])

---------------------------------------------------------------------------
(* internal/orchestrator: AnalyzeRepositoryWithConfig *)

\* The largest number of commits ParseRepository returns.
MaxParsedCommits == 2

\* The largest number of artifacts FetchArtifacts returns.
MaxFetchedArtifacts == 1

\* detectPlatform: a URL containing "github.com" is parsed into owner and
\* name; anything else is the plain git platform without an owner.
detectPlatform(repo) ==
    CASE repo = "https://github.com/Yates-Labs/thunk" ->
             [Platform |-> "github", Owner |-> "Yates-Labs", Name |-> "thunk"]
      [] repo = "github.com" ->
             [Platform |-> "github", Owner |-> "", Name |-> "github.com"]
      [] OTHER -> [Platform |-> "git", Owner |-> "", Name |-> "repo"]

RepoArguments == {"https://github.com/Yates-Labs/thunk", "github.com", "./repo"}

\* fmt.Errorf(msg + ": %w", cause): the message and the wrapped error.
Wrap(msg, cause) == <<msg, cause>>

\* The error a returned error wraps (errors.Unwrap).
Unwrap(err) == err[2]

\* return nil, err
ReturnError(err) == [episodes |-> "nil", err |-> <<err>>]

InitAnalyze ==
    /\ MilvusUnused
    /\ ConvertUnused
    /\ GroupUnused
    /\ PipelineUnused
    /\ IndexUnused
    /\ RetrUnused
    /\ PromptUnused
    /\ ReviewUnused
    /\ HybridUnused
    /\ anPc = "call"
    /\ anRepo \in {detectPlatform(r) : r \in RepoArguments}
    /\ anToken \in {"", "token"}
    /\ anCancelled \in BOOLEAN
    /\ anActivity = <<>>
    /\ anClustered = FALSE
    /\ anCancelledInTime = FALSE
    /\ anResult = "pending"

\* The owner of the context cancels it (or its deadline passes) while the
\* call is under way.
CancelContext ==
    /\ anPc \notin {"unused", "done"}
    /\ ~anCancelled
    /\ anCancelled' = TRUE
    /\ UNCHANGED <<anPc, anRepo, anToken, anActivity, anClustered, anCancelledInTime, anResult>>
    /\ UNCHANGED <<groupVars, indexVars, retrVars, promptVars, reviewVars, hybridVars,
                   pipelineVars, convertVars, milvusVars>>

\* part_006 216-229: the check of ctx.Err() on entry.
AnalyzeEntry ==
    /\ anPc = "call"
    /\ IF anCancelled
       THEN /\ anResult' = ReturnError(Wrap("context cancelled before analysis", "ctx.Err()"))
            /\ anCancelledInTime' = TRUE
            /\ anPc' = "done"
       ELSE /\ anPc' = "open"
            /\ UNCHANGED <<anResult, anCancelledInTime>>
    /\ UNCHANGED <<anRepo, anToken, anCancelled, anActivity, anClustered>>
    /\ UNCHANGED <<groupVars, indexVars, retrVars, promptVars, reviewVars, hybridVars,
                   pipelineVars, convertVars, milvusVars>>

\* part_006 231-235: ingestRepository returned an error.
IngestFailed(cause) ==
    /\ anResult' = ReturnError(Wrap("failed to ingest repository", cause))
    /\ anCancelledInTime' = anCancelled
    /\ anPc' = "done"

\* part_006 254-255: git.OpenRepository, which takes no context.
OpenRepository ==
    /\ anPc = "open"
    /\ \E ok \in BOOLEAN : anPc' = IF ok THEN "parse" ELSE "clone"
    /\ UNCHANGED <<anRepo, anToken, anCancelled, anActivity, anClustered, anCancelledInTime,
                   anResult>>
    /\ UNCHANGED <<groupVars, indexVars, retrVars, promptVars, reviewVars, hybridVars,
                   pipelineVars, convertVars, milvusVars>>

\* part_006 256-262: git.CloneRepository after a failed open.
CloneRepository ==
    /\ anPc = "clone"
    /\ \E ok \in BOOLEAN :
         IF ok THEN /\ anPc' = "parse"
                    /\ UNCHANGED <<anResult, anCancelledInTime>>
         ELSE IngestFailed(Wrap("failed to open or clone repository", "clone error"))
    /\ UNCHANGED <<anRepo, anToken, anCancelled, anActivity, anClustered>>
    /\ UNCHANGED <<groupVars, indexVars, retrVars, promptVars, reviewVars, hybridVars,
                   pipelineVars, convertVars, milvusVars>>

\* part_006 264-290: git.ParseRepository and the construction of the activity;
\* the artifacts are fetched when token, owner and name are all present.
ParseRepository ==
    /\ anPc = "parse"
    /\ \/ /\ IngestFailed(Wrap("failed to parse repository", "parse error"))
          /\ UNCHANGED anActivity
       \/ \E n \in 0..MaxParsedCommits :
            /\ anActivity' = <<[Commits |-> n, Artifacts |-> 0]>>
            /\ IF anToken # "" /\ anRepo.Owner # "" /\ anRepo.Name # ""
               THEN /\ anPc' = "enrich"
                    /\ UNCHANGED anCancelledInTime
               ELSE /\ anPc' = "check"
                    /\ anCancelledInTime' = anCancelled
            /\ UNCHANGED anResult
    /\ UNCHANGED <<anRepo, anToken, anCancelled, anClustered>>
    /\ UNCHANGED <<groupVars, indexVars, retrVars, promptVars, reviewVars, hybridVars,
                   pipelineVars, convertVars, milvusVars>>

\* part_006 283-288 and 294-316: enrichWithArtifacts; a failure is logged and
\* the activity keeps the git data only.
EnrichWithArtifacts ==
    /\ anPc = "enrich"
    /\ \/ UNCHANGED anActivity
       \/ \E k \in 0..MaxFetchedArtifacts :
            /\ anRepo.Platform = "github"
            /\ anActivity' = <<[anActivity[1] EXCEPT !.Artifacts = k]>>
    /\ anCancelledInTime' = anCancelled
    /\ anPc' = "check"
    /\ UNCHANGED <<anRepo, anToken, anCancelled, anClustered, anResult>>
    /\ UNCHANGED <<groupVars, indexVars, retrVars, promptVars, reviewVars, hybridVars,
                   pipelineVars, convertVars, milvusVars>>

\* part_006 237-240: the check of ctx.Err() after ingestion.
CancelledAfterIngestion(cancelled) == cancelled

\* part_006 237-245: the check after ingestion, then GroupIntoEpisodes.
AnalyzeCluster ==
    /\ anPc = "check"
    /\ IF CancelledAfterIngestion(anCancelled)
       THEN /\ anResult' = ReturnError(Wrap("context cancelled after ingestion", "ctx.Err()"))
            /\ UNCHANGED anClustered
       ELSE /\ anClustered' = TRUE
            /\ anResult' = [episodes |-> <<"GroupIntoEpisodes", anActivity[1].Commits>>,
                            err |-> <<>>]
    /\ anPc' = "done"
    /\ UNCHANGED <<anRepo, anToken, anCancelled, anActivity, anCancelledInTime>>
    /\ UNCHANGED <<groupVars, indexVars, retrVars, promptVars, reviewVars, hybridVars,
                   pipelineVars, convertVars, milvusVars>>

NextAnalyze ==
    \/ CancelContext
    \/ AnalyzeEntry
    \/ OpenRepository
    \/ CloneRepository
    \/ ParseRepository
    \/ EnrichWithArtifacts
    \/ AnalyzeCluster

SpecAnalyze == InitAnalyze /\ [][NextAnalyze]_vars

\* C22: when the call has returned and the context was cancelled before the
\* call or before ingestion ended, the call returned an error that wraps the
\* context's error, it returned no episodes, and GroupIntoEpisodes was not run.
C22_CancelledAborts ==
    (anPc = "done" /\ anCancelledInTime) =>
        /\ anResult.err # <<>>
        /\ Unwrap(anResult.err[1]) = "ctx.Err()"
        /\ anResult.episodes = "nil"
        /\ ~anClustered

\* What holds of every such call: an error and no episodes are returned and
\* GroupIntoEpisodes is not run.
C22_CancelledReturnsNoEpisodes ==
    (anPc = "done" /\ anCancelledInTime) =>
        /\ anResult.err # <<>>
        /\ anResult.episodes = "nil"
        /\ ~anClustered

---------------------------------------------------------------------------
(* internal/orchestrator: NewRAGPipeline, RAGPipeline.Close and the callers *)

\* The configuration runAsk builds (ask.go 134-155).
AskConfig == [MilvusDimension |-> 3072, LLMModel |-> "gpt-4o", LLMAPIKey |-> "key"]

\* The configurations a caller of the package can hand to NewRAGPipeline.
PipelineConfigs ==
    [MilvusDimension : {0, 3072}, LLMModel : {"", "gpt-4o"}, LLMAPIKey : {"", "key"}]

\* NewOpenAIEmbedder fails when OPENAI_API_KEY is not set.
NewOpenAIEmbedderFails(envKey) == envKey = ""

\* NewOpenAILLM fails when neither the configuration nor the environment has
\* a key, or when the model name is empty.
NewOpenAILLMFails(cfg, envKey) ==
    LET apiKey == IF cfg.LLMAPIKey = "" THEN envKey ELSE cfg.LLMAPIKey
    IN  apiKey = "" \/ cfg.LLMModel = ""

\* NewRetriever fails on a nil embedder or a nil vector store.
NewRetrieverFails(embedderNil, storeNil) == embedderNil \/ storeNil

InitPipeline ==
    /\ MilvusUnused
    /\ ConvertUnused
    /\ GroupUnused
    /\ IndexUnused
    /\ RetrUnused
    /\ PromptUnused
    /\ ReviewUnused
    /\ HybridUnused
    /\ AnalyzeUnused
    /\ plCaller \in {"runAsk", "test", "indexTest"}
    /\ plPc = "start"
    /\ plConfig \in IF plCaller = "runAsk" THEN {AskConfig} ELSE PipelineConfigs
    /\ plEnvKey \in {"", "key"}
    /\ plStoreOpen = FALSE
    /\ plEverOpened = FALSE
    /\ plDeferred = FALSE
    /\ plResult = "pending"

\* ask.go 55-127: runAsk requires OPENAI_API_KEY and a non-empty episode list
\* before it builds the pipeline; the test calls NewRAGPipeline at once.
CallerEntry ==
    /\ plPc = "start"
    /\ IF plCaller = "runAsk"
       THEN IF plEnvKey = ""
            THEN /\ plResult' = Wrap("OPENAI_API_KEY environment variable is required", "")
                 /\ plPc' = "exit"
            ELSE \E analysis \in {"error", "no episodes", "episodes"} :
                   IF analysis = "episodes"
                   THEN /\ plPc' = "new"
                        /\ UNCHANGED plResult
                   ELSE /\ plResult' = Wrap("Error:", analysis)
                        /\ plPc' = "exit"
       ELSE /\ plPc' = "new"
            /\ UNCHANGED plResult
    /\ UNCHANGED <<plCaller, plConfig, plEnvKey, plStoreOpen, plEverOpened, plDeferred>>
    /\ UNCHANGED <<groupVars, indexVars, retrVars, promptVars, reviewVars, hybridVars,
                   analyzeVars, convertVars, milvusVars>>

\* rag.go 65-98 with NewMilvusStore (part_016 265-289): the embedder, then the
\* store (connect, ensureCollection; the client is closed when ensureCollection
\* fails), then the retriever, then the LLM.  An error return after the store
\* was created leaves the store as it is.
NewRAGPipeline ==
    /\ plPc = "new"
    /\ IF NewOpenAIEmbedderFails(plEnvKey)
       THEN /\ plResult' = Wrap("failed to create embedder", "ErrMissingAPIKey")
            /\ UNCHANGED <<plStoreOpen, plEverOpened>>
       ELSE IF plConfig.MilvusDimension <= 0
       THEN /\ plResult' = Wrap("failed to create vector store", "ErrInvalidDimension")
            /\ UNCHANGED <<plStoreOpen, plEverOpened>>
       ELSE \E connected, ensured \in BOOLEAN :
              IF ~connected
              THEN /\ plResult' = Wrap("failed to create vector store", "ErrConnectionFailed")
                   /\ UNCHANGED <<plStoreOpen, plEverOpened>>
              ELSE IF ~ensured
              THEN /\ plResult' = Wrap("failed to create vector store", "ensureCollection error")
                   /\ plEverOpened' = TRUE
                   /\ plStoreOpen' = FALSE
              ELSE /\ plEverOpened' = TRUE
                   /\ plStoreOpen' = TRUE
                   /\ plResult' =
                        IF NewRetrieverFails(FALSE, FALSE)
                        THEN Wrap("failed to create retriever", "nil collaborator")
                        ELSE IF NewOpenAILLMFails(plConfig, plEnvKey)
                        THEN Wrap("failed to create LLM", "ErrInvalidConfig")
                        ELSE "pipeline"
    /\ plPc' = "constructed"
    /\ UNCHANGED <<plCaller, plConfig, plEnvKey, plDeferred>>
    /\ UNCHANGED <<groupVars, indexVars, retrVars, promptVars, reviewVars, hybridVars,
                   analyzeVars, convertVars, milvusVars>>

\* ask.go 158-161 and orchestrator.go 391-394: on an error the caller leaves;
\* otherwise it defers pipeline.Close().
CallerDefersClose ==
    /\ plPc = "constructed"
    /\ IF plResult # "pipeline"
       THEN /\ plPc' = "exit"
            /\ UNCHANGED plDeferred
       ELSE /\ plDeferred' = TRUE
            /\ plPc' = IF plCaller = "test" THEN "return" ELSE "index"
    /\ UNCHANGED <<plCaller, plConfig, plEnvKey, plStoreOpen, plEverOpened, plResult>>
    /\ UNCHANGED <<groupVars, indexVars, retrVars, promptVars, reviewVars, hybridVars,
                   analyzeVars, convertVars, milvusVars>>

\* ask.go 171-173 and orchestrator.go 424-460: pipeline.IndexEpisodes; an
\* error returns from the caller.
AskIndexEpisodes ==
    /\ plPc = "index"
    /\ \E ok \in BOOLEAN :
         IF ok THEN /\ plPc' = IF plCaller = "runAsk" THEN "generate" ELSE "return"
                    /\ UNCHANGED plResult
         ELSE /\ plResult' = Wrap("Failed to index episodes", "IndexEpisodes error")
              /\ plPc' = "return"
    /\ UNCHANGED <<plCaller, plConfig, plEnvKey, plStoreOpen, plEverOpened, plDeferred>>
    /\ UNCHANGED <<groupVars, indexVars, retrVars, promptVars, reviewVars, hybridVars,
                   analyzeVars, convertVars, milvusVars>>

\* ask.go 184-198: pipeline.GenerateProjectNarrativeRAG; runAsk returns the
\* error or prints the answer and returns nil.
AskGenerate ==
    /\ plPc = "generate"
    /\ \E ok \in BOOLEAN :
         plResult' = IF ok THEN "nil"
                     ELSE Wrap("Failed to generate answer", "GenerateProjectNarrativeRAG error")
    /\ plPc' = "return"
    /\ UNCHANGED <<plCaller, plConfig, plEnvKey, plStoreOpen, plEverOpened, plDeferred>>
    /\ UNCHANGED <<groupVars, indexVars, retrVars, promptVars, reviewVars, hybridVars,
                   analyzeVars, convertVars, milvusVars>>

\* rag.go 103-108 and part_016 615-620: RAGPipeline.Close closes the client.
PipelineClose(open) == FALSE

\* The caller returns and its deferred pipeline.Close() runs.
CallerReturn ==
    /\ plPc = "return"
    /\ plStoreOpen' = IF plDeferred THEN PipelineClose(plStoreOpen) ELSE plStoreOpen
    /\ plPc' = "exit"
    /\ UNCHANGED <<plCaller, plConfig, plEnvKey, plEverOpened, plDeferred, plResult>>
    /\ UNCHANGED <<groupVars, indexVars, retrVars, promptVars, reviewVars, hybridVars,
                   analyzeVars, convertVars, milvusVars>>

NextPipeline ==
    \/ CallerEntry
    \/ NewRAGPipeline
    \/ CallerDefersClose
    \/ AskIndexEpisodes
    \/ AskGenerate
    \/ CallerReturn

SpecPipeline == InitPipeline /\ [][NextPipeline]_vars

\* C23: when the program path has ended and the vector-store connection was
\* opened on it, the connection is closed.
C23_StoreReleased ==
    (plPc = "exit" /\ plEverOpened) => ~plStoreOpen

\* The same for the paths on which NewRAGPipeline returned a pipeline or
\* failed before or inside the creation of the store.
C23_StoreReleasedUnlessLLMFails ==
    (plPc = "exit" /\ plEverOpened /\ ~NewOpenAILLMFails(plConfig, plEnvKey)) => ~plStoreOpen

---------------------------------------------------------------------------
(* internal/adapter: convertGitHubIssue, convertGitHubPullRequest, sortDiscussions *)

\* The longest list of top-level comments of a record.
MaxComments == 2

\* The longest lists of review comments and of reviews of a pull request.
MaxReviewItems == 1

\* The instants at which comments and reviews are created.
CreationTimes == {1, 2, 3}

\* The lists of n items with identities 1..n in list order and any instants.
ItemLists(maxLen) ==
    UNION { {[i \in 1..n |-> [ID |-> i, CreatedAt |-> ts[i]]] : ts \in [1..n -> CreationTimes]} :
              n \in 0..maxLen }

\* The records handed to the adapter.
GitHubRecords ==
    { [Kind |-> "issue", Comments |-> c, ReviewComments |-> <<>>, Reviews |-> <<>>] :
        c \in ItemLists(MaxComments) }
    \cup
    { [Kind |-> "pr", Comments |-> c, ReviewComments |-> rc, Reviews |-> rv] :
        c \in ItemLists(MaxComments), rc \in ItemLists(MaxReviewItems),
        rv \in ItemLists(MaxReviewItems) }

\* convertGitHubComment, convertGitHubReviewComment, convertGitHubReview: the
\* identity gets the prefix of its kind; a review is created when submitted.
ConvertAll(prefix, items) ==
    [i \in 1..Len(items) |-> [ID |-> <<prefix, items[i].ID>>, CreatedAt |-> items[i].CreatedAt]]

\* part_002 388: discussions[j].CreatedAt.After(discussions[j+1].CreatedAt).
SwapNeeded(a, b) == a.CreatedAt > b.CreatedAt

\* The inner loop of sortDiscussions from position j (1-based) to limit.
RECURSIVE BubblePass(_, _, _)
BubblePass(discussions, j, limit) ==
    IF j > limit THEN discussions
    ELSE BubblePass(IF SwapNeeded(discussions[j], discussions[j + 1])
                    THEN [discussions EXCEPT ![j] = discussions[j + 1],
                                             ![j + 1] = discussions[j]]
                    ELSE discussions,
                    j + 1, limit)

\* The outer loop of sortDiscussions from pass i (0-based).
RECURSIVE BubbleFrom(_, _)
BubbleFrom(discussions, i) ==
    IF i >= Len(discussions) - 1 THEN discussions
    ELSE BubbleFrom(BubblePass(discussions, 1, Len(discussions) - i - 1), i + 1)

\* sortDiscussions: bubble sort by CreatedAt.
sortDiscussions(discussions) == BubbleFrom(discussions, 0)

\* The discussions in the order the converters append them.
AppendedDiscussions(record) ==
    ConvertAll("comment", record.Comments)
        \o ConvertAll("review-comment", record.ReviewComments)
        \o ConvertAll("review", record.Reviews)

InitConvert ==
    /\ MilvusUnused
    /\ GroupUnused
    /\ IndexUnused
    /\ RetrUnused
    /\ PromptUnused
    /\ ReviewUnused
    /\ HybridUnused
    /\ AnalyzeUnused
    /\ PipelineUnused
    /\ cvPc = "call"
    /\ cvRecord \in GitHubRecords
    /\ cvDiscussions = <<>>

\* part_002 119-157: the comments of an issue are appended in list order.
convertGitHubIssue ==
    /\ cvPc = "call"
    /\ cvRecord.Kind = "issue"
    /\ cvDiscussions' = ConvertAll("comment", cvRecord.Comments)
    /\ cvPc' = "done"
    /\ UNCHANGED cvRecord
    /\ UNCHANGED <<groupVars, indexVars, retrVars, promptVars, reviewVars, hybridVars,
                   analyzeVars, pipelineVars, milvusVars>>

\* part_002 159-220: comments, review comments and reviews are appended in
\* this order and the list is sorted with sortDiscussions.
convertGitHubPullRequest ==
    /\ cvPc = "call"
    /\ cvRecord.Kind = "pr"
    /\ cvDiscussions' = sortDiscussions(AppendedDiscussions(cvRecord))
    /\ cvPc' = "done"
    /\ UNCHANGED cvRecord
    /\ UNCHANGED <<groupVars, indexVars, retrVars, promptVars, reviewVars, hybridVars,
                   analyzeVars, pipelineVars, milvusVars>>

NextConvert == convertGitHubIssue \/ convertGitHubPullRequest

SpecConvert == InitConvert /\ [][NextConvert]_vars

\* The position of a discussion in the list before sorting.
AppendedPosition(d) ==
    CHOOSE i \in 1..Len(AppendedDiscussions(cvRecord)) : AppendedDiscussions(cvRecord)[i] = d

\* Non-decreasing by CreatedAt; discussions created at the same instant are
\* in the order in which they were appended.
SortedStable(discussions) ==
    \A i, j \in 1..Len(discussions) :
        i < j => /\ discussions[i].CreatedAt <= discussions[j].CreatedAt
                 /\ discussions[i].CreatedAt = discussions[j].CreatedAt
                      => AppendedPosition(discussions[i]) < AppendedPosition(discussions[j])

\* C26: the discussions of every artifact the adapter returns, for an issue
\* and for a pull request, are the appended discussions in non-decreasing
\* created-at order, and discussions with equal created-at keep the relative
\* order they had before the sort.
C26_DiscussionsSorted ==
    cvPc = "done" =>
        /\ Range(cvDiscussions) = Range(AppendedDiscussions(cvRecord))
        /\ Len(cvDiscussions) = Len(AppendedDiscussions(cvRecord))
        /\ SortedStable(cvDiscussions)

\* The same for the artifacts made from pull requests.
C26_PullRequestDiscussionsSorted ==
    (cvPc = "done" /\ cvRecord.Kind = "pr") =>
        /\ Range(cvDiscussions) = Range(AppendedDiscussions(cvRecord))
        /\ Len(cvDiscussions) = Len(AppendedDiscussions(cvRecord))
        /\ SortedStable(cvDiscussions)

---------------------------------------------------------------------------
(* The five subscores of calculateEpisodeSimilarity *)

\* A score that is a number in the closed interval [0, 1].
InUnitInterval(x) == ~IsNaN(x) /\ x[2] > 0 /\ 0 <= x[1] /\ x[1] <= x[2]

\* The loop is about to compare the next commit with the current episode.
Comparing == pc = "loop" /\ idx < Len(commits) /\ currentEpisode # <<>>

\* The last commit of the current episode.
LastOfCurrent == currentEpisode[1].Commits[Len(currentEpisode[1].Commits)]

\* C27: whenever a commit is compared with the current episode, each of the
\* five subscores is a number in [0, 1].
C27_SubscoresInUnitInterval ==
    Comparing =>
        /\ InUnitInterval(calculateTimeScore(LastOfCurrent, commits[idx + 1], config.MaxTimeGap))
        /\ InUnitInterval(calculateAuthorScore(currentEpisode[1], commits[idx + 1]))
        /\ InUnitInterval(calculateFileScore(currentEpisode[1], commits[idx + 1]))
        /\ InUnitInterval(calculateMessageScore(currentEpisode[1], commits[idx + 1]))
        /\ InUnitInterval(calculateArtifactScore(currentEpisode[1], commits[idx + 1]))

\* What holds: the author, file, message and artifact scores are numbers in
\* [0, 1], and so is the time score unless MaxTimeGap is zero and the two
\* commits carry the same instant.
C27_SubscoresExceptZeroGap ==
    Comparing =>
        /\ (config.MaxTimeGap # 0 \/ LastOfCurrent.CommittedAt # commits[idx + 1].CommittedAt)
             => InUnitInterval(calculateTimeScore(LastOfCurrent, commits[idx + 1],
                                                  config.MaxTimeGap))
        /\ InUnitInterval(calculateAuthorScore(currentEpisode[1], commits[idx + 1]))
        /\ InUnitInterval(calculateFileScore(currentEpisode[1], commits[idx + 1]))
        /\ InUnitInterval(calculateMessageScore(currentEpisode[1], commits[idx + 1]))
        /\ InUnitInterval(calculateArtifactScore(currentEpisode[1], commits[idx + 1]))

---------------------------------------------------------------------------
(* The emitted episodes as runs of the sorted commit sequence *)

\* The commits of a list of episodes, one episode after the other.
RECURSIVE Flatten(_)
Flatten(eps) == IF eps = <<>> THEN <<>> ELSE Head(eps).Commits \o Flatten(Tail(eps))

\* The first position in the sorted sequence at which the commit stands (0
\* when it does not occur).
PositionOf(c) ==
    LET at == {i \in 1..Len(commits) : commits[i] = c}
    IN  IF at = {} THEN 0 ELSE CHOOSE i \in at : \A k \in at : i <= k

\* Where the run of an episode starts and ends in the sorted sequence.
RunStart(ep) == PositionOf(ep.Commits[1])

RunEnd(ep) == RunStart(ep) + Len(ep.Commits) - 1

\* The episode is a contiguous run of the sorted sequence.
IsRun(ep) ==
    /\ Len(ep.Commits) >= 1
    /\ RunStart(ep) >= 1
    /\ RunEnd(ep) <= Len(commits)
    /\ ep.Commits = SubSeq(commits, RunStart(ep), RunEnd(ep))

\* C29: when the call has returned, the sorted sequence holds exactly the
\* input commits, every emitted episode is a contiguous run of it, the run of
\* an earlier episode ends before the run of a later one begins (so no commit
\* is in two episodes or twice in one), and with MinCommits <= 1 the episodes
\* one after the other are the whole sorted sequence.
C29_DisjointRuns ==
    pc = "done" =>
        /\ Range(commits) = Range(raCommits) /\ Len(commits) = Len(raCommits)
        /\ \A e \in 1..Len(episodes) : IsRun(episodes[e])
        /\ \A e \in 1..Len(episodes) - 1 : RunEnd(episodes[e]) < RunStart(episodes[e + 1])
        /\ \A c \in Range(Flatten(episodes)) :
             Cardinality({i \in 1..Len(Flatten(episodes)) : Flatten(episodes)[i] = c}) = 1
        /\ config.MinCommits <= 1 => Flatten(episodes) = commits

\* Three commits were grouped into an episode of two and an episode of one.
C29_Witness ==
    /\ pc = "done"
    /\ Len(commits) = 3
    /\ Len(episodes) = 2
    /\ Len(episodes[1].Commits) = 2
    /\ episodes[2].Commits = <<commits[3]>>

\* With MinCommits = 2 a run of one commit between two longer runs is left out.
C29_WitnessGap ==
    /\ pc = "done"
    /\ config.MinCommits = 2
    /\ Len(episodes) = 1
    /\ Len(commits) = 3
    /\ episodes[1].Commits = SubSeq(commits, 2, 3)

---------------------------------------------------------------------------
(* MilvusStore.Insert *)

\* Bounds of the store model: the records of one call and the rows after
\* which no further call is made.
MaxInsertRecords == 2

MaxRows == 3

\* The EmbeddingRecords handed to Insert: a text and its vector.
InsertRecordLists ==
    UNION { [1..n -> {[Text |-> t, Embedding |-> VectorOf(<<"summary of", EpisodeID(t)>>)] :
                         t \in 1..2}] : n \in 0..MaxInsertRecords }

\* The metadata map: the entry "episode_id" is absent or not a string
\* (<<>>), or a string that may be empty.
InsertMetadata ==
    [episode_id : {<<>>, <<NoID>>} \cup {<<id>> : id \in EpisodeIdents}]

\* Insert 385-387: an empty record list is refused.
InsertRejectsEmpty(records) == Len(records) = 0

\* Insert 389-393: episode_id must be a non-empty string.
MissingEpisodeID(metadata) == metadata.episode_id = <<>> \/ metadata.episode_id = <<"">>

\* Insert 403-430: one row per record, each carrying the episode identity of
\* the metadata (the date, author and count columns are filled from the
\* metadata in the same way and are left out).
InsertRows(records, metadata) ==
    [i \in 1..Len(records) |->
        [episode_id |-> metadata.episode_id[1], text |-> records[i].Text,
         embedding |-> records[i].Embedding, flushed |-> FALSE]]

\* client.Flush: every row of the collection is persisted.
FlushRows(rows) == [i \in 1..Len(rows) |-> [rows[i] EXCEPT !.flushed = TRUE]]

InitMilvus ==
    /\ ConvertUnused
    /\ PipelineUnused
    /\ AnalyzeUnused
    /\ GroupUnused
    /\ IndexUnused
    /\ RetrUnused
    /\ PromptUnused
    /\ ReviewUnused
    /\ HybridUnused
    /\ msPc = "idle"
    /\ msArgs = [records |-> <<>>, metadata |-> [episode_id |-> <<>>]]
    /\ msCollection = <<>>
    /\ msBefore = <<>>
    /\ msResult = "pending"

\* MilvusStore.Insert 384-452.  client.Insert and client.Flush are calls to
\* the server that may fail.
MilvusInsert ==
    /\ msPc = "idle"
    /\ Len(msCollection) < MaxRows
    /\ \E records \in InsertRecordLists, metadata \in InsertMetadata,
          insertFails \in BOOLEAN, flushFails \in BOOLEAN :
         /\ msArgs' = [records |-> records, metadata |-> metadata]
         /\ msBefore' = msCollection
         /\ IF InsertRejectsEmpty(records)
            THEN /\ msResult' = "ErrEmptyRecords"
                 /\ msCollection' = msCollection
            ELSE IF MissingEpisodeID(metadata)
            THEN /\ msResult' = "ErrMissingMetadata"
                 /\ msCollection' = msCollection
            ELSE IF insertFails
            THEN /\ msResult' = "ErrInsertFailed"
                 /\ msCollection' = msCollection
            ELSE IF flushFails
            THEN /\ msResult' = "failed to flush data"
                 /\ msCollection' = msCollection \o InsertRows(records, metadata)
            ELSE /\ msResult' = "nil"
                 /\ msCollection' = FlushRows(msCollection \o InsertRows(records, metadata))
    /\ msPc' = "returned"
    /\ UNCHANGED <<groupVars, indexVars, retrVars, promptVars, reviewVars, hybridVars, analyzeVars, pipelineVars, convertVars>>

\* The caller has the result; another call may follow.
MilvusReturn ==
    /\ msPc = "returned"
    /\ msPc' = "idle"
    /\ UNCHANGED <<msArgs, msCollection, msBefore, msResult>>
    /\ UNCHANGED <<groupVars, indexVars, retrVars, promptVars, reviewVars, hybridVars, analyzeVars, pipelineVars, convertVars>>

NextMilvus == MilvusInsert \/ MilvusReturn

SpecMilvus == InitMilvus /\ [][NextMilvus]_vars

\* C28: Insert with an empty record list returns without error and leaves
\* the collection unchanged.
C28_EmptyInsertNoOp ==
    (msPc = "returned" /\ msArgs.records = <<>>) =>
        /\ msResult = "nil"
        /\ msCollection = msBefore

\* What holds: Insert with an empty record list returns ErrEmptyRecords and
\* leaves the collection unchanged.
C28_EmptyInsertRefused ==
    (msPc = "returned" /\ msArgs.records = <<>>) =>
        /\ msResult = "ErrEmptyRecords"
        /\ msCollection = msBefore

\* An empty record list handed to a store that holds rows.
C28_Witness ==
    /\ msPc = "returned"
    /\ msArgs.records = <<>>
    /\ msCollection # <<>>

---------------------------------------------------------------------------
(* IndexEpisodes with any IndexOptions value *)

\* The calls made when the batch size is not restricted.
MaxAnyCalls == 1

\* BatchSize is an int: nothing keeps a caller from passing zero or a
\* negative number.
AnyBatchSizes == {-1, 0, 1, 2}

AnyIndexOptions ==
    [BatchSize : AnyBatchSizes, ForceReindex : BOOLEAN, SkipExisting : BOOLEAN]

\* IndexEpisodes 661-698 called with any episode list and any options: an
\* empty list returns nil at once; otherwise Delete under ForceReindex and
\* filterNewEpisodes under SkipExisting without ForceReindex.
IndexCallAny ==
    /\ ixPc = "idle"
    /\ ixCalls < MaxAnyCalls
    /\ \E eps \in SummaryLists, opts \in AnyIndexOptions, storeFails \in BOOLEAN :
         /\ ixEpisodes' = eps
         /\ ixOpts' = opts
         /\ ixHistory' =
              IF Len(eps) = 0 THEN ixHistory
              ELSE [onlySkipExisting |-> ixHistory.onlySkipExisting
                                           /\ opts.SkipExisting /\ ~opts.ForceReindex,
                    queryFailed |-> ixHistory.queryFailed
                                      \/ (opts.SkipExisting /\ ~opts.ForceReindex
                                            /\ storeFails)]
         /\ ixLog' = IF Len(eps) = 0 THEN <<>>
                      ELSE IF opts.ForceReindex
                      THEN <<LogEntry("Delete", 0, ~storeFails, eps)>>
                      ELSE IF opts.SkipExisting
                      THEN <<LogEntry("Query", 0, ~storeFails, eps)>>
                      ELSE <<>>
         /\ IF Len(eps) = 0
            THEN /\ ixResult' = "nil"
                 /\ ixPc' = "returned"
                 /\ episodesToIndex' = <<>>
                 /\ store' = store
            ELSE IF opts.ForceReindex /\ storeFails
            THEN /\ ixResult' = "failed to delete existing episodes"
                 /\ ixPc' = "returned"
                 /\ episodesToIndex' = <<>>
                 /\ store' = store
            ELSE /\ ixResult' = "pending"
                 /\ ixPc' = "embed"
                 /\ store' = IF opts.ForceReindex THEN StoreDelete(store, IdentsOf(eps))
                             ELSE store
                 /\ episodesToIndex' =
                      IF opts.SkipExisting /\ ~opts.ForceReindex
                      THEN filterNewEpisodes(eps, storeFails, store)
                      ELSE eps
    /\ ixCalls' = ixCalls + 1
    /\ batchStart' = 0
    /\ embeddingRecords' = <<>>
    /\ UNCHANGED <<unflushed, insertCount>>
    /\ UNCHANGED <<groupVars, retrVars, promptVars, reviewVars, hybridVars, analyzeVars, pipelineVars, convertVars, milvusVars>>

NextIndexAny ==
    IndexCallAny \/ IndexDone \/ IndexEmbed \/ IndexInsert \/ IndexFlush \/ IndexReturn

SpecIndexAny == InitIndex /\ [][NextIndexAny]_vars

\* A call that has started is run to its end: the goroutine executing
\* IndexEpisodes keeps taking steps, and each collaborator call returns.
FairSpecIndexAny ==
    InitIndex /\ [][NextIndexAny]_vars
        /\ WF_vars(IndexDone \/ IndexEmbed \/ IndexInsert \/ IndexFlush)

\* A call of IndexEpisodes is running.
IndexRunning == ixPc \in {"embed", "insert", "flush"}

\* The call has returned nil or an error.
IndexReturned == ixPc = "returned" /\ ~IndexPanicked

\* C30: every call of IndexEpisodes terminates, returning nil or an error,
\* whatever the episode list and the IndexOptions value.
C30_Terminates == IndexRunning ~> IndexReturned

\* What holds: with a batch size that is not negative the call returns nil
\* or an error (the embedder, as OpenAIEmbedder does, refuses the empty
\* batch that a batch size of zero produces).
C30_TerminatesUnlessNegative ==
    (IndexRunning /\ ixOpts.BatchSize >= 0) ~> IndexReturned

\* A call with a batch size of zero has returned the embedder's error.
C30_WitnessZero ==
    /\ ixPc = "returned"
    /\ ixOpts.BatchSize = 0
    /\ ixLog # <<>>
    /\ ixLog[Len(ixLog)].op = "Embed"
    /\ ixLog[Len(ixLog)].ids = <<>>
    /\ ixResult = BatchError("failed to generate embeddings for batch starting at", 0,
                             "Embed error")

\* A call with a negative batch size has panicked.
C30_WitnessPanic ==
    /\ ixPc = "returned"
    /\ ixOpts.BatchSize < 0
    /\ IndexPanicked
    /\ ixResult = "panic"

====
